---- MODULE Spec2Model ----
(***************************************************************************)
(* The stimulation-synchronised discretisation of cocofest:                *)
(*   OcpFes.prepare_n_shooting     cocofest/optimization/fes_ocp.py        *)
(*   OcpFesId._build_constraints   .../fes_identification_ocp.py           *)
(*                                                                         *)
(* Numbers.  A rational is a pair <<n, d>> in lowest terms with d > 0, as  *)
(* fractions.Fraction keeps it.  The caller writes a time as a rational    *)
(* (0.1, 1/3); Python hands the program the nearest binary float, which    *)
(* FloatOf computes (round to nearest, ties to even).  The significand has *)
(* MantBits bits and limit_denominator() bounds denominators by            *)
(* MaxDenominator; both are scaled down from 53 and 1000000 so that every  *)
(* intermediate value fits in 32 bits, keeping 2^MantBits far above        *)
(* MaxDenominator^2 as in the program.  On the in-contract inputs of the   *)
(* model the scaled floats place a stimulation on a wrong node only where  *)
(* IEEE doubles do too (6 Hz trains over 1, 1.5 and 2 s).                  *)
(*                                                                         *)
(* The muscle model, DingModelFrequency of cocofest/models/ding2003.py:    *)
(* its attributes, its setters and the derivative system_dynamics with the *)
(* helpers it calls.  The derivative is computed on exact values, the      *)
(* rationals the expressions denote, with NaN, the infinities and the      *)
(* ZeroDivisionError of a Python float division as extra values.  Times    *)
(* are whole multiples of tauc in units of ln(2) seconds, which makes      *)
(* every exponential of the model a power of two.                          *)
(*                                                                         *)
(* The helpers of OcpFes and OcpFesId (_fill_dict, _sanity_check,          *)
(* _set_bounds, _build_parameters, _set_parameters) take Python objects of *)
(* any class: an object is a record of its class, its number and its       *)
(* items, and an exception raised is a value returned.                     *)
(*                                                                         *)
(* The data processing: full_data_extraction of                            *)
(* cocofest/identification/identification_method.py, and slice_data and    *)
(* the down-sampling of C3dToForce in data_process/c3d_process.py.  Times  *)
(* are whole numbers of sampling periods, forces small integers.           *)
(***************************************************************************)
EXTENDS Integers, Sequences, FiniteSets, TLC

\* ---------------------------------------------------------------- bounds
MantBits == 13        \* bits of the float significand (53 in IEEE double)
MaxDenominator == 12  \* limit_denominator() bound (1000000 in the program)
MaxTimeDen == 14      \* denominators of the times a caller may write
MaxStim == 3          \* length of an arbitrary stimulation list
MaxFreq == 10         \* frequencies of the evenly spaced stimulation trains
MaxNodes == 12        \* largest grid on which the constraints are built
MaxK == 3             \* largest truncation window
MaxTick == 2          \* evaluation and stimulation times are 0..MaxTick times tauc
MaxEvents == 2        \* length of the stimulation list given to the derivative

\* ------------------------------------------------------------- rationals
\* math.gcd: greatest common divisor of the absolute values
RECURSIVE GcdNat(_, _)
GcdNat(a, b) == IF b = 0 THEN a ELSE GcdNat(b, a % b)

Abs(x) == IF x < 0 THEN -x ELSE x

Gcd(a, b) == GcdNat(Abs(a), Abs(b))

\* Fraction(n, d): lowest terms, positive denominator
Frac(n, d) ==
    LET g == Gcd(n, d)
        s == IF d < 0 THEN -1 ELSE 1
    IN  << (s * n) \div g, (s * d) \div g >>

Num(x) == x[1]

Den(x) == x[2]

\* Fraction.__truediv__
FracDiv(a, b) == Frac(Num(a) * Den(b), Den(a) * Num(b))

FracLeq(a, b) == Num(a) * Den(b) <= Num(b) * Den(a)

FracLt(a, b) == Num(a) * Den(b) < Num(b) * Den(a)

RECURSIVE Pow2(_)
Pow2(e) == IF e = 0 THEN 1 ELSE 2 * Pow2(e - 1)

\* ---------------------------------------------------------------- floats
\* Scale a positive rational n/d by powers of two until its integer part
\* has MantBits bits; s is the power of two applied so far.
RECURSIVE FloatScale(_, _, _)
FloatScale(n, d, s) ==
    IF (n \div d) >= Pow2(MantBits - 1) THEN << n, d, s >>
    ELSE IF d % 2 = 0 THEN FloatScale(n, d \div 2, 2 * s)
    ELSE FloatScale(2 * n, d, 2 * s)

\* Round a positive rational to the nearest float, ties to even.
FloatRoundPos(n, d) ==
    LET t == FloatScale(n, d, 1)
        q == t[1] \div t[2]
        r == t[1] % t[2]
        m == IF 2 * r > t[2] THEN q + 1
             ELSE IF 2 * r = t[2] THEN q + (q % 2)
             ELSE q
    IN  Frac(m, t[3])

\* The float nearest to the rational x (a Python float literal or result).
FloatOf(x) ==
    IF Num(x) = 0 THEN << 0, 1 >>
    ELSE IF Num(x) < 0
         THEN LET y == FloatRoundPos(-Num(x), Den(x)) IN << -Num(y), Den(y) >>
         ELSE FloatRoundPos(Num(x), Den(x))

\* float / int and int * float, each rounded once
FloatDivInt(x, j) == FloatOf(Frac(Num(x), Den(x) * j))

FloatMulInt(j, x) == FloatOf(Frac(j * Num(x), Den(x)))

\* x <= y for two floats (denominators are powers of two)
FloatLeq(x, y) ==
    IF Den(x) <= Den(y)
    THEN Num(x) * (Den(y) \div Den(x)) <= Num(y)
    ELSE Num(x) <= Num(y) * (Den(x) \div Den(y))

\* ------------------------------------------- Fraction.limit_denominator
\* The continued-fraction search of fractions.Fraction.limit_denominator:
\* the closest fraction to n0/d0 with denominator at most MaxDenominator.
RECURSIVE LimitLoop(_, _, _, _, _, _, _)
LimitLoop(p0, q0, p1, q1, n, d, d0) ==
    LET a == n \div d
        q2 == q0 + a * q1
    IN  IF q2 > MaxDenominator
        THEN LET k == (MaxDenominator - q0) \div q1
             IN  IF 2 * d * (q0 + k * q1) <= d0
                 THEN Frac(p1, q1)
                 ELSE Frac(p0 + k * p1, q0 + k * q1)
        ELSE LimitLoop(p1, q1, p0 + a * p1, q2, d, n - a * d, d0)

LimitDenominator(x) ==
    IF Den(x) <= MaxDenominator THEN x
    ELSE LimitLoop(0, 1, 1, 0, Num(x), Den(x), Den(x))

\* Fraction(t).limit_denominator() of the float the caller passed for x
ToFraction(x) == LimitDenominator(FloatOf(x))


\* ---------------------------------------------------------------- inputs
Horizons == { << 1, 1 >>, << 3, 2 >>, << 2, 1 >> }

\* The times a caller may write: 0, k/d for k = 1, 2, and one negative time.
Times ==
    { Frac(k, d) : k \in 1..2, d \in 1..MaxTimeDen } \cup { << 0, 1 >>, << -1, 2 >> }

StrictlyIncreasing(s) ==
    \A a \in 1..Len(s) : \A b \in 1..Len(s) : a < b => FracLt(s[a], s[b])

\* Arbitrary stimulation histories: strictly increasing times.
StimLists ==
    { s \in UNION { [1..n -> Times] : n \in 0..MaxStim } : StrictlyIncreasing(s) }

\* A train at frequency f over horizon T: times k/f for k = 0..f*T-1.
EvenlySpaced(f, T) == [ k \in 1..((f * Num(T)) \div Den(T)) |-> Frac(k - 1, f) ]

EvenTrains(T) ==
    { EvenlySpaced(f, T) : f \in { g \in 1..MaxFreq : (g * Num(T)) % Den(T) = 0 } }

\* ------------------------------------------------- prepare_n_shooting
\* (variant: the accumulator started at 0)
NShootingStartZero == 1 - 1

\* n_shooting = 1
NShootingStart == 1

\* (variant: the threshold written with one more zero)
WarnThresholdTypo == 10 * 1000

\* the node count from which the warning is printed
WarnThreshold == 1000

\* (variant: the product without the division by the gcd)
LcmStepNoGcd(acc, d) == acc * d

\* n_shooting = n_shooting * d // gcd(n_shooting, d)
LcmStep(acc, d) == (acc * d) \div Gcd(acc, d)

\* (variant: the time not normalised by the horizon)
NormNoHorizon(t, T) == ToFraction(t)

\* norm = t_frac / T_final, on the fractions limit_denominator() returned
Norm(t, T) == FracDiv(ToFraction(t), ToFraction(T))

\* if n_shooting >= 1000: print(warning)
ShouldWarn(n) == n >= WarnThreshold

\* ------------------------------------------------- _build_constraints
ControlTypes == { "CONSTANT", "LINEAR_CONTINUOUS" }

\* np.linspace(0, final_time, n + 1): step = final_time / n, node j is
\* j * step, and the last node is set to final_time itself.
TimeVector(T, n) ==
    LET stop == FloatOf(T)
        step == FloatDivInt(stop, n)
    IN  [ j \in 1..(n + 1) |-> IF j = n + 1 THEN stop ELSE FloatMulInt(j - 1, step) ]

\* np.where(t <= time_vector)[0]: the 0-based nodes at or after the float t
NodesAtOrAfter(t, tv) == { j \in 0..(Len(tv) - 1) : FloatLeq(FloatOf(t), tv[j + 1]) }

SetMin(S) == CHOOSE x \in S : \A y \in S : x <= y

\* stim_at_node = [np.where(stim_time[i] <= time_vector)[0][0] for i in ...]
StimAtNode(stim, tv) == [ k \in 1..Len(stim) |-> SetMin(NodesAtOrAfter(stim[k], tv)) ]

\* [0][0] of an empty np.where result raises IndexError
StimAtNodeRaises(stim, tv) == \E k \in 1..Len(stim) : NodesAtOrAfter(stim[k], tv) = {}

\* additional_nodes = 1 if control_type == ControlType.LINEAR_CONTINUOUS else 0
AdditionalNodes(ct) == IF ct = "LINEAR_CONTINUOUS" THEN 1 ELSE 0

\* (variant: the window size subtracted with the wrong sign)
MaxStimToKeepNegated(K) == IF K # 0 THEN 0 - K ELSE 10000000

\* max_stim_to_keep; a truncation of 0 stands for None (both are falsy)
MaxStimToKeep(K) == IF K # 0 THEN K ELSE 10000000

\* [i for i in range(index_inf, index_sup)]
Range(lo, hi) == [ j \in 1..(IF hi > lo THEN hi - lo ELSE 0) |-> lo + j - 1 ]

\* stim_time[index_inf:index_sup]
Slice(s, lo, hi) ==
    LET h == IF hi > Len(s) THEN Len(s) ELSE hi
    IN  [ j \in 1..(IF h > lo THEN h - lo ELSE 0) |-> s[lo + j] ]

InRange(f, x) == \E k \in 1..Len(f) : f[k] = x

\* ----------------------------------------------- DingModelFrequency values
\* The derivative is evaluated on exact values: a finite value is a rational
\* <<n, d>> with d > 0; <<0, 0>> is NaN, <<1, 0>> and <<-1, 0>> are the
\* infinities, and <<0, -1>> stands for a ZeroDivisionError raised while
\* computing the value, which every later operation passes on.
NaN == << 0, 0 >>

PosInf == << 1, 0 >>

NegInf == << -1, 0 >>

Raised == << 0, -1 >>

Zero == << 0, 1 >>

One == << 1, 1 >>

IsRaised(x) == Den(x) < 0

IsFinite(x) == Den(x) > 0

IsNaN(x) == x = NaN

Sgn(x) == IF Num(x) > 0 THEN 1 ELSE IF Num(x) < 0 THEN -1 ELSE 0

\* Fraction.__add__ and Fraction.__mul__, reducing before multiplying
FracAdd(a, b) ==
    LET g == Gcd(Den(a), Den(b))
    IN  Frac(Num(a) * (Den(b) \div g) + Num(b) * (Den(a) \div g),
             (Den(a) \div g) * Den(b))

FracMul(a, b) ==
    LET g1 == Gcd(Num(a), Den(b))
        g2 == Gcd(Num(b), Den(a))
    IN  Frac((Num(a) \div g1) * (Num(b) \div g2), (Den(a) \div g2) * (Den(b) \div g1))

\* unary minus
Neg(x) == << -Num(x), Den(x) >>

\* x + y
Add(a, b) ==
    IF IsRaised(a) \/ IsRaised(b) THEN Raised
    ELSE IF IsNaN(a) \/ IsNaN(b) THEN NaN
    ELSE IF IsFinite(a) /\ IsFinite(b) THEN FracAdd(a, b)
    ELSE IF IsFinite(a) THEN b
    ELSE IF IsFinite(b) THEN a
    ELSE IF a = b THEN a
    ELSE NaN

\* x - y
Sub(a, b) == Add(a, Neg(b))

\* x * y
Mul(a, b) ==
    IF IsRaised(a) \/ IsRaised(b) THEN Raised
    ELSE IF IsNaN(a) \/ IsNaN(b) THEN NaN
    ELSE IF IsFinite(a) /\ IsFinite(b) THEN FracMul(a, b)
    ELSE IF Sgn(a) * Sgn(b) = 0 THEN NaN
    ELSE << Sgn(a) * Sgn(b), 0 >>

\* x / y on Python floats: a zero divisor raises ZeroDivisionError
TrueDiv(a, b) ==
    IF IsRaised(a) \/ IsRaised(b) THEN Raised
    ELSE IF b = Zero THEN Raised
    ELSE IF IsNaN(a) \/ IsNaN(b) THEN NaN
    ELSE IF IsFinite(a) /\ IsFinite(b)
         THEN FracMul(a, << Sgn(b) * Den(b), Abs(Num(b)) >>)
    ELSE IF IsFinite(b) THEN << Sgn(a) * Sgn(b), 0 >>
    ELSE IF IsFinite(a) THEN Zero
    ELSE NaN

\* x <= y: false when either side is NaN
Leq(a, b) ==
    IF IsNaN(a) \/ IsNaN(b) THEN FALSE
    ELSE IF IsFinite(a) /\ IsFinite(b) THEN FracLeq(a, b)
    ELSE a = NegInf \/ b = PosInf

\* casadi.exp.  Times are counted in units of ln(2) seconds, so the
\* exponential of a whole number k of such units over one second is the
\* rational 2^k; the times of the model make every argument whole.
Exp(x) ==
    IF IsRaised(x) THEN Raised
    ELSE IF IsNaN(x) THEN NaN
    ELSE IF x = PosInf THEN PosInf
    ELSE IF x = NegInf THEN Zero
    ELSE IF Num(x) >= 0 THEN << Pow2(Num(x) \div Den(x)), 1 >>
    ELSE << 1, Pow2((-Num(x)) \div Den(x)) >>

\* casadi.if_else(condition, 1, 0)
IfElse(c, x, y) == IF c THEN x ELSE y

\* s[j] with Python's indexing: 0-based, a negative index counts from the end
PyIndex(s, j) == IF j < 0 THEN s[Len(s) + j + 1] ELSE s[j + 1]

\* ------------------------------------------------ DingModelFrequency
\* the default values of __init__
TAUC_DEFAULT == << 1, 50 >>

R0_KM_RELATIONSHIP_DEFAULT == << 26, 25 >>

A_REST_DEFAULT == << 3009, 1 >>

TAU1_REST_DEFAULT == << 50957, 1000000 >>

TAU2_DEFAULT == << 3, 50 >>

KM_REST_DEFAULT == << 103, 1000 >>

\* None, a value that is neither a number nor a list of numbers
None == << << >> >>

\* DingModelFrequency(is_approximated=approx): the attributes after __init__
DingModelFrequency(approx) ==
    [ is_approximated |-> approx,
      pulse_apparition_time |-> None,
      stim_prev |-> << >>,
      tauc |-> TAUC_DEFAULT,
      r0_km_relationship |-> R0_KM_RELATIONSHIP_DEFAULT,
      a_rest |-> A_REST_DEFAULT,
      tau1_rest |-> TAU1_REST_DEFAULT,
      tau2 |-> TAU2_DEFAULT,
      km_rest |-> KM_REST_DEFAULT ]

\* the identifiable_parameters property
IdentifiableParameters(self) ==
    [ a_rest |-> self.a_rest,
      tau1_rest |-> self.tau1_rest,
      km_rest |-> self.km_rest,
      tau2 |-> self.tau2 ]

\* get_r0
GetR0(self, km) == Add(km, self.r0_km_relationship)

\* get_lambda_i: 1 for every stimulation
GetLambdaI(nb_stim, pulse_intensity) == [ i \in 1..nb_stim |-> One ]

\* exp_time_fun
ExpTimeFun(self, t, t_stim_i) == Exp(TrueDiv(Neg(Sub(t, t_stim_i)), self.tauc))

\* ri_fun
RiFun(self, r0, time_between_stim) ==
    Add(One, Mul(Sub(r0, One), Exp(TrueDiv(Neg(time_between_stim), self.tauc))))

\* (variant: every listed event weighted by 1 in both modes)
CnSumTermNoIndicator(self, r0, t, t_stim_prev, lambda_i, i) ==
    LET previous_phase_time == Sub(PyIndex(t_stim_prev, i), PyIndex(t_stim_prev, i - 1))
        ri == IF i = 0 THEN One ELSE RiFun(self, r0, previous_phase_time)
        exp_time == ExpTimeFun(self, t, PyIndex(t_stim_prev, i))
    IN  Mul(Mul(Mul(ri, exp_time), PyIndex(lambda_i, i)), One)

\* (variant: the first stimulus enhanced like the later ones)
CnSumTermWrapped(self, r0, t, t_stim_prev, lambda_i, i) ==
    LET previous_phase_time == Sub(PyIndex(t_stim_prev, i), PyIndex(t_stim_prev, i - 1))
        ri == RiFun(self, r0, previous_phase_time)
        exp_time == ExpTimeFun(self, t, PyIndex(t_stim_prev, i))
        coefficient == IF self.is_approximated THEN One
                       ELSE IfElse(Leq(PyIndex(t_stim_prev, i), t), One, Zero)
    IN  Mul(Mul(Mul(ri, exp_time), PyIndex(lambda_i, i)), coefficient)

\* the body of the loop of cn_sum_fun for index i: what is added to
\* sum_multiplier
CnSumTerm(self, r0, t, t_stim_prev, lambda_i, i) ==
    LET previous_phase_time == Sub(PyIndex(t_stim_prev, i), PyIndex(t_stim_prev, i - 1))
        ri == IF i = 0 THEN One ELSE RiFun(self, r0, previous_phase_time)
        exp_time == ExpTimeFun(self, t, PyIndex(t_stim_prev, i))
        coefficient == IF self.is_approximated THEN One
                       ELSE IfElse(Leq(PyIndex(t_stim_prev, i), t), One, Zero)
    IN  Mul(Mul(Mul(ri, exp_time), PyIndex(lambda_i, i)), coefficient)

\* sum_multiplier after the first n iterations of the loop of cn_sum_fun
RECURSIVE CnSumLoop(_, _, _, _, _, _)
CnSumLoop(self, r0, t, t_stim_prev, lambda_i, n) ==
    IF n = 0 THEN Zero
    ELSE Add(CnSumLoop(self, r0, t, t_stim_prev, lambda_i, n - 1),
             CnSumTerm(self, r0, t, t_stim_prev, lambda_i, n - 1))

\* cn_sum_fun
CnSumFun(self, r0, t, t_stim_prev, lambda_i) ==
    CnSumLoop(self, r0, t, t_stim_prev, lambda_i, Len(t_stim_prev))

\* cn_dot_fun: (1 / self.tauc) * cn_sum - (cn / self.tauc)
CnDotFun(self, cn, cn_sum) ==
    Sub(Mul(TrueDiv(One, self.tauc), cn_sum), TrueDiv(cn, self.tauc))

\* (variant: exact mode taking Km itself for R0)
CalculateCnDotBareKm(self, cn, cn_sum, t, t_stim_prev) ==
    IF self.is_approximated
    THEN CnDotFun(self, cn, cn_sum)
    ELSE CnDotFun(self, cn,
             CnSumFun(self, self.km_rest, t, t_stim_prev,
                      GetLambdaI(Len(t_stim_prev), One)))

\* calculate_cn_dot, pulse_intensity left at its default 1
CalculateCnDot(self, cn, cn_sum, t, t_stim_prev) ==
    IF self.is_approximated
    THEN CnDotFun(self, cn, cn_sum)
    ELSE CnDotFun(self, cn,
             CnSumFun(self, GetR0(self, self.km_rest), t, t_stim_prev,
                      GetLambdaI(Len(t_stim_prev), One)))

\* (variant: the force-velocity multiplier left out)
FDotFunNoVelocity(self, cn, f, a, tau1, km, force_length, force_velocity) ==
    LET r == TrueDiv(cn, Add(km, cn))
    IN  Mul(Sub(Mul(a, r), TrueDiv(f, Add(tau1, Mul(self.tau2, r)))), force_length)

\* f_dot_fun
FDotFun(self, cn, f, a, tau1, km, force_length, force_velocity) ==
    LET r == TrueDiv(cn, Add(km, cn))
    IN  Mul(Mul(Sub(Mul(a, r), TrueDiv(f, Add(tau1, Mul(self.tau2, r)))), force_length),
            force_velocity)

\* system_dynamics: vertcat(cn_dot, f_dot), or the error raised on the way
SystemDynamics(self, cn, f, t, t_stim_prev, cn_sum, force_length, force_velocity) ==
    LET cn_dot == CalculateCnDot(self, cn, cn_sum, t, t_stim_prev)
        f_dot == FDotFun(self, cn, f, self.a_rest, self.tau1_rest, self.km_rest,
                         force_length, force_velocity)
    IN  IF IsRaised(cn_dot) \/ IsRaised(f_dot) THEN << Raised >>
        ELSE << cn_dot, f_dot >>

\* the values given to the setters
ARestValues == { << 2, 1 >> }

KmRestValues == { << 1, 2 >> }

Tau1RestValues == { << 1, 2 >>, Zero }

Tau2Values == { << 1, 2 >>, << -1, 2 >> }

PulseApparitionValues == { << Zero, TAUC_DEFAULT >> }

\* the arguments of the derivative: states, times, stimulation lists,
\* supplied sums and multipliers.  Cn is at rest, at half activation
\* (Cn = Km, where Cn / (Km + Cn) is 1/2) or not a number.
CnValues(self) == { Zero, self.km_rest, NaN }

FValues == { Zero, One, PosInf }

EvalTimes == { FracMul(<< k, 1 >>, TAUC_DEFAULT) : k \in 0..MaxTick }

Histories ==
    { s \in UNION { [1..n -> EvalTimes] : n \in 0..MaxEvents } : StrictlyIncreasing(s) }

CnSumValues == { Zero, One }

\* force_length_relationship, force_velocity_relationship: the defaults, or
\* a shortened and shortening muscle
Multipliers == { << One, One >>, << << 1, 2 >>, << 1, 4 >> >> }

\* no call made yet
NoCall ==
    [ method |-> "none", cn |-> None, f |-> None, t |-> None, t_stim_prev |-> None,
      cn_sum |-> None, force_length_relationship |-> None,
      force_velocity_relationship |-> None, r0 |-> None ]

VARIABLES
    final_time,           \* the horizon the caller wrote
    stim_time,            \* the stimulation times the caller wrote
    pc,                   \* "prepare", "prepared", "build", "a_calculation", "done", "error";
                          \* "model", "returned" for a model used on its own
    stim_pos,             \* number of stimulation times already folded in
    n_shooting,           \* the accumulator, then the returned node count
    warned,               \* the performance warning was printed
    sum_stim_truncation,  \* model._sum_stim_truncation (0 for None)
    control_type,         \* the control type given to _build_constraints
    stim_at_node,         \* the node of every stimulation
    node,                 \* the loop variable i of _build_constraints
    index_sup,
    index_inf,
    stim_index,
    constraints,          \* the cn_sum constraints added so far
    a_calculation,        \* the a_calculation constraints added so far
    model,                \* the attributes of the DingModelFrequency instance
    last_set,             \* the value last given to each setter (the default before)
    call,                 \* the last call made on the model: method and arguments
    returned              \* what that call returned or raised

prepVars == << final_time, stim_time, stim_pos, n_shooting, warned >>

buildVars ==
    << sum_stim_truncation, control_type, stim_at_node, node, index_sup, index_inf,
       stim_index, constraints, a_calculation >>

dingVars == << model, last_set, call, returned >>

vars == << prepVars, pc, buildVars, dingVars >>

Init ==
    /\ final_time \in Horizons
    /\ stim_time \in StimLists \cup EvenTrains(final_time)
    /\ pc = "prepare"
    /\ stim_pos = 0
    /\ n_shooting = NShootingStart
    /\ warned = FALSE
    /\ sum_stim_truncation = 0
    /\ control_type = "CONSTANT"
    /\ stim_at_node = << >>
    /\ node = 0
    /\ index_sup = 0
    /\ index_inf = 0
    /\ stim_index = << >>
    /\ constraints = << >>
    /\ a_calculation = << >>
    /\ model = DingModelFrequency(TRUE)
    /\ last_set = IdentifiableParameters(model)
    /\ call = NoCall
    /\ returned = None

\* one iteration of "for t in stim_time"
FoldStim ==
    /\ pc = "prepare"
    /\ stim_pos < Len(stim_time)
    /\ n_shooting' = LcmStep(n_shooting, Den(Norm(stim_time[stim_pos + 1], final_time)))
    /\ stim_pos' = stim_pos + 1
    /\ UNCHANGED << final_time, stim_time, pc, warned, buildVars, dingVars >>

\* after the loop: the warning, then "return n_shooting"
ReturnNShooting ==
    /\ pc = "prepare"
    /\ stim_pos = Len(stim_time)
    /\ warned' = ShouldWarn(n_shooting)
    /\ pc' = "prepared"
    /\ UNCHANGED << final_time, stim_time, stim_pos, n_shooting, buildVars, dingVars >>

\* prepare_ocp hands the node count to _build_constraints: the time vector
\* and stim_at_node are computed, or np.where(...)[0][0] raises IndexError
StartBuild ==
    /\ pc = "prepared"
    /\ n_shooting <= MaxNodes
    /\ LET tv == TimeVector(final_time, n_shooting)
           raises == StimAtNodeRaises(stim_time, tv)
           at == IF raises THEN << >> ELSE StimAtNode(stim_time, tv)
       IN  /\ pc' = IF raises THEN "error" ELSE "build"
           /\ stim_at_node' = at
           /\ \E K \in 0..MaxK, ct \in ControlTypes :
                /\ sum_stim_truncation' = K
                /\ control_type' = ct
    /\ UNCHANGED << prepVars, node, index_sup, index_inf, stim_index, constraints,
                    a_calculation, dingVars >>

\* one iteration of "for i in range(n_shooting + additional_nodes)"
BuildNode ==
    /\ pc = "build"
    /\ node < n_shooting + AdditionalNodes(control_type)
    /\ LET hit == InRange(stim_at_node, node)
           sup == IF hit THEN index_sup + 1 ELSE index_sup
           inf == IF hit /\ sup >= MaxStimToKeep(sum_stim_truncation)
                  THEN sup - MaxStimToKeep(sum_stim_truncation)
                  ELSE index_inf
           idx == IF hit THEN Range(inf, sup) ELSE stim_index
       IN  /\ index_sup' = sup
           /\ index_inf' = inf
           /\ stim_index' = idx
           /\ constraints' = Append(constraints,
                  [ node |-> node, stim_time |-> Slice(stim_time, inf, sup),
                    stim_index |-> idx ])
    /\ node' = node + 1
    /\ UNCHANGED << prepVars, pc, sum_stim_truncation, control_type, stim_at_node,
                    a_calculation, dingVars >>

\* the model is a DingModelPulseWidthFrequency: "index_sup = 0" and the
\* second loop starts
StartACalculation ==
    /\ pc = "build"
    /\ node = n_shooting + AdditionalNodes(control_type)
    /\ pc' = "a_calculation"
    /\ index_sup' = 0
    /\ node' = 0
    /\ UNCHANGED << prepVars, sum_stim_truncation, control_type, stim_at_node,
                    index_inf, stim_index, constraints, a_calculation, dingVars >>

\* if i in stim_at_node and i != 0: index_sup += 1
LastStimIndex(sup, at, i) == IF InRange(at, i) /\ i # 0 THEN sup + 1 ELSE sup

\* one iteration of the second "for i in range(n_shooting + additional_nodes)"
ACalculationNode ==
    /\ pc = "a_calculation"
    /\ node < n_shooting + AdditionalNodes(control_type)
    /\ LET sup == LastStimIndex(index_sup, stim_at_node, node)
       IN  /\ index_sup' = sup
           /\ a_calculation' = Append(a_calculation,
                  [ node |-> node, last_stim_index |-> sup ])
    /\ node' = node + 1
    /\ UNCHANGED << prepVars, pc, sum_stim_truncation, control_type, stim_at_node,
                    index_inf, stim_index, constraints, dingVars >>

\* "return constraints": after the first loop for any other model, after
\* the second loop for a DingModelPulseWidthFrequency
ReturnConstraints ==
    /\ pc \in { "build", "a_calculation" }
    /\ node = n_shooting + AdditionalNodes(control_type)
    /\ pc' = "done"
    /\ UNCHANGED << prepVars, buildVars, dingVars >>

\* prepare_n_shooting called on its own
NextPrepare == FoldStim \/ ReturnNShooting

Spec == Init /\ [][NextPrepare]_vars

\* prepare_ocp: prepare_n_shooting, then _build_constraints
Next ==
    \/ FoldStim
    \/ ReturnNShooting
    \/ StartBuild
    \/ BuildNode
    \/ StartACalculation
    \/ ACalculationNode
    \/ ReturnConstraints

SpecOcp == Init /\ [][Next]_vars

\* ------------------------------------------------ DingModelFrequency
ocpVars == << prepVars, pc, buildVars >>

\* a model just constructed, exact or approximated, with no program built
InitModel ==
    /\ final_time = << 1, 1 >>
    /\ stim_time = << >>
    /\ pc = "model"
    /\ stim_pos = 0
    /\ n_shooting = NShootingStart
    /\ warned = FALSE
    /\ sum_stim_truncation = 0
    /\ control_type = "CONSTANT"
    /\ stim_at_node = << >>
    /\ node = 0
    /\ index_sup = 0
    /\ index_inf = 0
    /\ stim_index = << >>
    /\ constraints = << >>
    /\ a_calculation = << >>
    /\ \E approx \in BOOLEAN : model = DingModelFrequency(approx)
    /\ last_set = IdentifiableParameters(model)
    /\ call = NoCall
    /\ returned = None

set_a_rest ==
    /\ pc = "model"
    /\ \E a_rest \in ARestValues :
        /\ model' = [ model EXCEPT !.a_rest = a_rest ]
        /\ last_set' = [ last_set EXCEPT !.a_rest = a_rest ]
        /\ UNCHANGED << ocpVars, call, returned >>

set_km_rest ==
    /\ pc = "model"
    /\ \E km_rest \in KmRestValues :
        /\ model' = [ model EXCEPT !.km_rest = km_rest ]
        /\ last_set' = [ last_set EXCEPT !.km_rest = km_rest ]
        /\ UNCHANGED << ocpVars, call, returned >>

set_tau1_rest ==
    /\ pc = "model"
    /\ \E tau1_rest \in Tau1RestValues :
        /\ model' = [ model EXCEPT !.tau1_rest = tau1_rest ]
        /\ last_set' = [ last_set EXCEPT !.tau1_rest = tau1_rest ]
        /\ UNCHANGED << ocpVars, call, returned >>

\* (variant: set_tau2 writing the other time constant)
set_tau2WritingTau1 ==
    /\ pc = "model"
    /\ \E tau2 \in Tau2Values :
        /\ model' = [ model EXCEPT !.tau1_rest = tau2 ]
        /\ last_set' = [ last_set EXCEPT !.tau2 = tau2 ]
        /\ UNCHANGED << ocpVars, call, returned >>

set_tau2 ==
    /\ pc = "model"
    /\ \E tau2 \in Tau2Values :
        /\ model' = [ model EXCEPT !.tau2 = tau2 ]
        /\ last_set' = [ last_set EXCEPT !.tau2 = tau2 ]
        /\ UNCHANGED << ocpVars, call, returned >>

set_pulse_apparition_time ==
    /\ pc = "model"
    /\ \E value \in PulseApparitionValues :
        /\ model' = [ model EXCEPT !.pulse_apparition_time = value ]
        /\ UNCHANGED << ocpVars, last_set, call, returned >>

\* (variant: the evaluation remembers the stimulation list it was given)
dynamicsKeepingStimPrev ==
    /\ pc = "model"
    /\ \E arg \in (IF model.is_approximated THEN CnSumValues ELSE Histories) :
        \E cn \in CnValues(model), f \in FValues, time \in EvalTimes, m \in Multipliers :
            LET stim_apparition == IF model.is_approximated THEN None ELSE arg
                cn_sum == IF model.is_approximated THEN arg ELSE None
            IN  /\ pc' = "returned"
                /\ call' = [ method |-> "system_dynamics", cn |-> cn, f |-> f,
                             t |-> time, t_stim_prev |-> stim_apparition,
                             cn_sum |-> cn_sum, force_length_relationship |-> m[1],
                             force_velocity_relationship |-> m[2], r0 |-> None ]
                /\ returned' = SystemDynamics(model, cn, f, time, stim_apparition,
                                              cn_sum, m[1], m[2])
                /\ model' = [ model EXCEPT !.stim_prev = stim_apparition ]
                /\ UNCHANGED << prepVars, buildVars, last_set >>

\* dynamics: the supplied sum in approximated mode, the stimulation list
\* otherwise, then system_dynamics; the caller is handed the result
dynamics ==
    /\ pc = "model"
    /\ \E arg \in (IF model.is_approximated THEN CnSumValues ELSE Histories) :
        \E cn \in CnValues(model), f \in FValues, time \in EvalTimes, m \in Multipliers :
            LET stim_apparition == IF model.is_approximated THEN None ELSE arg
                cn_sum == IF model.is_approximated THEN arg ELSE None
            IN  /\ pc' = "returned"
                /\ call' = [ method |-> "system_dynamics", cn |-> cn, f |-> f,
                             t |-> time, t_stim_prev |-> stim_apparition,
                             cn_sum |-> cn_sum, force_length_relationship |-> m[1],
                             force_velocity_relationship |-> m[2], r0 |-> None ]
                /\ returned' = SystemDynamics(model, cn, f, time, stim_apparition,
                                              cn_sum, m[1], m[2])
                /\ UNCHANGED << prepVars, buildVars, model, last_set >>

\* cn_sum_fun called on its own, as the cn_sum constraint does
cn_sum_fun ==
    /\ pc = "model"
    /\ \E t_stim_prev \in Histories, t \in EvalTimes :
        LET r0 == GetR0(model, model.km_rest)
        IN  /\ pc' = "returned"
            /\ call' = [ NoCall EXCEPT !.method = "cn_sum_fun", !.r0 = r0, !.t = t,
                                       !.t_stim_prev = t_stim_prev ]
            /\ returned' = CnSumFun(model, r0, t, t_stim_prev,
                                    GetLambdaI(Len(t_stim_prev), One))
            /\ UNCHANGED << prepVars, buildVars, model, last_set >>

\* the caller has used the returned value and goes on with the same model
Resume ==
    /\ pc = "returned"
    /\ pc' = "model"
    /\ call' = NoCall
    /\ returned' = None
    /\ UNCHANGED << prepVars, buildVars, model, last_set >>

NextModel ==
    \/ set_a_rest
    \/ set_km_rest
    \/ set_tau1_rest
    \/ set_tau2
    \/ set_pulse_apparition_time
    \/ dynamics
    \/ cn_sum_fun
    \/ Resume

SpecModel == InitModel /\ [][NextModel]_vars

\* ============================================================ properties
\* x is held exactly by a fraction within the limit_denominator() bound
Representable(x) == Den(x) <= MaxDenominator

AllRepresentable ==
    /\ Representable(final_time)
    /\ \A k \in 1..Len(stim_time) : Representable(stim_time[k])

WithinHorizon ==
    \A k \in 1..Len(stim_time) :
        FracLeq(<< 0, 1 >>, stim_time[k]) /\ FracLeq(stim_time[k], final_time)

\* the reduced denominator of t / final_time, in exact arithmetic
NormDen(t) == (Den(t) * Num(final_time)) \div Gcd(Num(t) * Den(final_time), Den(t) * Num(final_time))

\* t * M / final_time is an integer: t is a node of the grid of M steps
OnGrid(t, M) == (Num(t) * Den(final_time) * M) % (Den(t) * Num(final_time)) = 0

\* N is the least positive common multiple of the numbers in D
IsLcm(N, D) ==
    /\ N >= 1
    /\ \A d \in D : N % d = 0
    /\ \A M \in 1..(N - 1) : \E d \in D : M % d # 0

Returned == pc = "prepared"

\* C1: for a horizon and stimulation times that are exactly representable,
\* prepare_n_shooting returns the least common multiple of the reduced
\* denominators of stim_time[i] / final_time.
C1_LcmOfDenominators ==
    (Returned /\ AllRepresentable) =>
        IsLcm(n_shooting, { NormDen(stim_time[k]) : k \in 1..Len(stim_time) })

C1_Witness ==
    /\ Returned
    /\ final_time = << 1, 1 >>
    /\ stim_time = << << 0, 1 >>, << 1, 3 >>, << 2, 3 >> >>
    /\ n_shooting = 3

\* C2 (as claimed): for every non-empty history within [0, horizon], every
\* stimulation time is a node i * final_time / N of the returned grid.
C2_EveryStimOnGrid ==
    (Returned /\ Len(stim_time) > 0 /\ WithinHorizon) =>
        \A k \in 1..Len(stim_time) : OnGrid(stim_time[k], n_shooting)

\* C3 (as claimed): no grid with fewer steps than the returned node count
\* has every stimulation time on a node.
C3_Minimal ==
    Returned =>
        ~ \E M \in 1..(n_shooting - 1) :
              \A k \in 1..Len(stim_time) : OnGrid(stim_time[k], M)

\* C4: a train at frequency f over horizon T, f * T a positive integer,
\* gets exactly f * T nodes.
C4_EvenTrainNodeCount ==
    \A f \in 1..MaxFreq :
        ( /\ Returned
          /\ (f * Num(final_time)) % Den(final_time) = 0
          /\ stim_time = EvenlySpaced(f, final_time) )
        => n_shooting = (f * Num(final_time)) \div Den(final_time)

C4_Witness ==
    /\ Returned
    /\ final_time = << 1, 1 >>
    /\ Len(stim_time) = 10
    /\ stim_time = EvenlySpaced(10, final_time)
    /\ n_shooting = 10

\* C5: an empty stimulation list gives one node, whatever the horizon.
C5_EmptyListOneNode == (Returned /\ stim_time = << >>) => n_shooting = 1

C5_Witness ==
    /\ Returned
    /\ stim_time = << >>
    /\ final_time = << 2, 1 >>
    /\ n_shooting = 1

\* C6 (as claimed): a stimulation time outside [0, horizon] is an error, so
\* a node count is returned only for histories within the horizon.
C6_OutOfHorizonRaises == Returned => WithinHorizon

\* C7 (as claimed): a time or horizon that no fraction within the bound
\* holds exactly is flagged or raised, never silently rounded; the only
\* signal prepare_n_shooting has is its warning.
C7_ApproximationFlagged == Returned => (AllRepresentable \/ warned)

\* the whole loop of prepare_n_shooting over the first k stimulation times
RECURSIVE NShootingAfter(_)
NShootingAfter(k) ==
    IF k = 0 THEN NShootingStart
    ELSE LcmStep(NShootingAfter(k - 1), Den(Norm(stim_time[k], final_time)))

\* C8: the warning is printed exactly when the node count is 1000 or more,
\* nothing is raised, and the node count returned is the one the loop
\* computed, warning or not.
C8_WarningOnly ==
    /\ pc \in { "prepare", "prepared" }
    /\ pc = "prepare" => ~warned
    /\ Returned =>
         /\ warned <=> n_shooting >= 1000
         /\ n_shooting = NShootingAfter(Len(stim_time))

C8_Witness == Returned /\ warned /\ n_shooting >= 1000

\* the stimulation events at or before node i: by the exact times, and by
\* the floats the program compares
EventsBefore(i) ==
    Cardinality({ k \in 1..Len(stim_time) :
        Num(stim_time[k]) * Den(final_time) * n_shooting
            <= i * Num(final_time) * Den(stim_time[k]) })

EventsBeforeFloat(i) ==
    LET tv == TimeVector(final_time, n_shooting)
    IN  Cardinality({ k \in 1..Len(stim_time) : FloatLeq(FloatOf(stim_time[k]), tv[i + 1]) })

\* constraint c carries the w most recent of n events, in order
HasWindow(c, n, w) ==
    /\ c.stim_index = [ j \in 1..w |-> n - w + j - 1 ]
    /\ c.stim_time = [ j \in 1..w |-> stim_time[n - w + j] ]

Min(a, b) == IF a < b THEN a ELSE b

InContract == AllRepresentable /\ WithinHorizon

\* C9 (as claimed): with a truncation window K, every node's constraint
\* carries exactly the min(K, n) most recent of the n stimulation events at
\* or before the node, contiguous and in order.
C9_TruncatedWindow ==
    (InContract /\ pc \in { "build", "done" } /\ sum_stim_truncation # 0) =>
        \A m \in 1..Len(constraints) :
            LET c == constraints[m]
                n == EventsBefore(c.node)
                nf == EventsBeforeFloat(c.node)
            IN  \/ HasWindow(c, n, Min(sum_stim_truncation, n))
                \/ HasWindow(c, nf, Min(sum_stim_truncation, nf))

\* C10 (as claimed): without a truncation window, every node's constraint
\* carries the full prefix: all stimulation events at or before the node.
C10_FullPrefix ==
    (InContract /\ pc \in { "build", "done" } /\ sum_stim_truncation = 0) =>
        \A m \in 1..Len(constraints) :
            LET c == constraints[m]
                n == EventsBefore(c.node)
                nf == EventsBeforeFloat(c.node)
            IN  HasWindow(c, n, n) \/ HasWindow(c, nf, nf)

\* C11 (as claimed): at every node that has a stimulation event at or before
\* it, the last_stim_index given to a_calculation_identification is the
\* 0-based index of the last such event, whether or not the first
\* stimulation is at time 0.
C11_LastStimIndex ==
    (InContract /\ pc \in { "a_calculation", "done" }) =>
        \A m \in 1..Len(a_calculation) :
            LET c == a_calculation[m]
                n == EventsBefore(c.node)
                nf == EventsBeforeFloat(c.node)
            IN  \/ (n >= 1 => c.last_stim_index = n - 1)
                \/ (nf >= 1 => c.last_stim_index = nf - 1)

\* C12: walking the nodes of the first loop in increasing index, index_sup
\* and index_inf never decrease, and index_inf <= index_sup <= number of
\* stimulations at every node (truncation window None or a positive size).
C12_MonotonicWindow ==
    [][ (pc = "build" /\ pc' = "build") =>
            /\ index_sup <= index_sup'
            /\ index_inf <= index_inf'
            /\ index_inf' <= index_sup'
            /\ index_sup' <= Len(stim_time) ]_vars

\* the window has moved: three stimulations walked with a window of two
C12_Witness ==
    /\ pc = "build"
    /\ node = n_shooting
    /\ sum_stim_truncation = 2
    /\ Len(stim_time) = 3
    /\ index_sup = 3
    /\ index_inf = 1

\* ------------------------------------------------ DingModelFrequency
\* a call of system_dynamics has just returned or raised
Evaluated == pc = "returned" /\ call.method = "system_dynamics"

\* system_dynamics applied to the arguments of the recorded call c
Derivative(self, c) ==
    SystemDynamics(self, c.cn, c.f, c.t, c.t_stim_prev, c.cn_sum,
                   c.force_length_relationship, c.force_velocity_relationship)

\* C13: an evaluation of the derivative changes no attribute of the model,
\* and what it returns is determined by its arguments and the parameter
\* values alone, whatever was evaluated before.
C13_PureDerivative ==
    [][ (pc = "model" /\ pc' = "returned" /\ call'.method = "system_dynamics") =>
            /\ model' = model
            /\ last_set' = last_set
            /\ returned' = Derivative(model, call') ]_vars

\* an exact-mode evaluation over two stimulations, on a model whose
\* parameters and pulse times were set before
C13_Witness ==
    /\ Evaluated
    /\ ~ model.is_approximated
    /\ Len(call.t_stim_prev) = 2
    /\ model.pulse_apparition_time # None
    /\ model.a_rest # A_REST_DEFAULT
    /\ returned = Derivative(model, call)

NonFinite(x) == ~ IsFinite(x)

NegativeTimeConstant(self) ==
    Sgn(self.tauc) < 0 \/ Sgn(self.tau1_rest) < 0 \/ Sgn(self.tau2) < 0

\* C14 (as claimed): an evaluation whose state or time is NaN or infinite,
\* or whose model has a negative time constant, raises an error; it never
\* returns a derivative.
C14_RejectsNonFinite ==
    ( /\ Evaluated
      /\ \/ NonFinite(call.cn)
         \/ NonFinite(call.f)
         \/ NonFinite(call.t)
         \/ NegativeTimeConstant(model) )
    => returned = << Raised >>

PositiveTimeConstants(self) ==
    Sgn(self.tauc) > 0 /\ Sgn(self.tau1_rest) > 0 /\ Sgn(self.tau2) > 0

\* C15 (as claimed): a non-positive time constant is refused when the model
\* is constructed or the constant is set, so no model holds one, neither
\* between calls nor when the derivative is evaluated.
C15_TimeConstantsPositive ==
    (pc \in { "model", "returned" }) => PositiveTimeConstants(model)

\* a direct call of cn_sum_fun has just returned
Summed == pc = "returned" /\ call.method = "cn_sum_fun"

\* the events of s at or before t
PastEvents(s, t) == SelectSeq(s, LAMBDA x : Leq(x, t))

C17_ModesAgree ==
    (Evaluated /\ returned # << Raised >>) =>
        LET approximated == [ model EXCEPT !.is_approximated = TRUE ]
            cn_sum == IF model.is_approximated THEN call.cn_sum
                      ELSE CnSumFun(model, GetR0(model, model.km_rest), call.t,
                                    call.t_stim_prev,
                                    GetLambdaI(Len(call.t_stim_prev), One))
        IN  /\ returned[1] = CalculateCnDot(approximated, call.cn, cn_sum, call.t, None)
            /\ returned[1] = TrueDiv(Sub(cn_sum, call.cn), model.tauc)

C17_Witness ==
    /\ Evaluated
    /\ ~ model.is_approximated
    /\ Len(call.t_stim_prev) = 2
    /\ call.t = call.t_stim_prev[2]
    /\ call.cn = model.km_rest
    /\ returned # << Raised >>
    /\ IsFinite(returned[1])

\* R_i of the i-th listed stimulus (i from 1): 1 for the first, otherwise
\* 1 + (R0 - 1) * exp(-(t_i - t_(i-1)) / tauc) with R0 = Km + r0_km_relationship
EnhancementFactor(self, s, i) ==
    IF i = 1 THEN One
    ELSE LET R0 == Add(self.km_rest, self.r0_km_relationship)
             gap == Sub(s[i], s[i - 1])
         IN  Add(One, Mul(Sub(R0, One), Exp(Neg(TrueDiv(gap, self.tauc)))))

RECURSIVE EnhancedSum(_, _, _, _)
EnhancedSum(self, t, s, n) ==
    IF n = 0 THEN Zero
    ELSE Add(EnhancedSum(self, t, s, n - 1),
             IF self.is_approximated \/ Leq(s[n], t)
             THEN Mul(EnhancementFactor(self, s, n),
                      Exp(Neg(TrueDiv(Sub(t, s[n]), self.tauc))))
             ELSE Zero)

\* C18: the sum cn_sum_fun returns is built with R_1 = 1 and, for every
\* later stimulus, R_i from the gap to the stimulus just before it and
\* R0 = Km + r0_km_relationship; the gap t_0 - t_last is not in it.
C18_EnhancementFactor ==
    Summed =>
        /\ call.r0 = Add(model.km_rest, model.r0_km_relationship)
        /\ returned = EnhancedSum(model, call.t, call.t_stim_prev, Len(call.t_stim_prev))

\* two past stimulations one tauc apart, on a model whose Km was set
C18_Witness ==
    /\ Summed
    /\ model.km_rest = << 1, 2 >>
    /\ call.t = FracMul(<< 2, 1 >>, TAUC_DEFAULT)
    /\ call.t_stim_prev = << Zero, TAUC_DEFAULT >>
    /\ returned = << 177, 200 >>

\* C19: the multipliers scale the force derivative only: the Cn derivative
\* is the one obtained with both multipliers at their default 1, and the
\* force derivative is that one times force_length * force_velocity.
C19_MultipliersScaleForce ==
    (Evaluated /\ returned # << Raised >>) =>
        LET plain == Derivative(model, [ call EXCEPT !.force_length_relationship = One,
                                                     !.force_velocity_relationship = One ])
        IN  /\ returned[1] = plain[1]
            /\ returned[2] = Mul(plain[2], Mul(call.force_length_relationship,
                                               call.force_velocity_relationship))

C19_Witness ==
    /\ Evaluated
    /\ call.force_length_relationship = << 1, 2 >>
    /\ call.force_velocity_relationship = << 1, 4 >>
    /\ call.cn = model.km_rest
    /\ call.f = One
    /\ returned # << Raised >>
    /\ IsFinite(returned[2])
    /\ returned[2] # Zero

\* the model with the four identifiable parameters replaced by those of p
WithParameters(self, p) ==
    [ self EXCEPT !.a_rest = p.a_rest, !.tau1_rest = p.tau1_rest,
                  !.km_rest = p.km_rest, !.tau2 = p.tau2 ]

\* C20: every step leaves identifiable_parameters at the values last given
\* to the setters, a setter changes nothing but its own constant, the mode
\* flag and the other constants never change, and an evaluation uses the
\* values last set.
C20_SettersAssignOwnConstant ==
    [][ /\ IdentifiableParameters(model') = last_set'
        /\ model' = WithParameters([ model EXCEPT !.pulse_apparition_time =
                                                      model'.pulse_apparition_time ],
                                    last_set')
        /\ \A k \in DOMAIN last_set :
               last_set'[k] # last_set[k] =>
                   \A j \in DOMAIN last_set \ { k } : last_set'[j] = last_set[j]
        /\ (pc' = "returned" /\ call'.method = "system_dynamics") =>
               returned' = Derivative(WithParameters(model, last_set), call') ]_vars

\* an evaluation after all four setters were called
C20_Witness ==
    /\ Evaluated
    /\ model.a_rest # A_REST_DEFAULT
    /\ model.km_rest # KM_REST_DEFAULT
    /\ model.tau1_rest # TAU1_REST_DEFAULT
    /\ model.tau2 # TAU2_DEFAULT
    /\ IdentifiableParameters(model) = last_set
    /\ returned = Derivative(model, call)
    /\ returned # << Raised >>

\* ============================================================ OcpFes helpers
\* The static helpers of OcpFes and OcpFesId are called one at a time with
\* the arguments the caller built; call holds the arguments, returned the
\* value or the exception that came back.

\* A Python object: its class, its number (the value of an int, float or
\* bool, the length of a str or an np.ndarray) and its items (list, dict)
PyValue(type, num, items) == [ type |-> type, num |-> num, items |-> items ]

PyNone == PyValue("NoneType", 0, << >>)

PyInt(n) == PyValue("int", n, << >>)

PyFloat(x) == PyValue("float", x, << >>)

PyBool(b) == PyValue("bool", IF b THEN 1 ELSE 0, << >>)

PyStr(length) == PyValue("str", length, << >>)

PyList(items) == PyValue("list", Len(items), items)

NdArray(length) == PyValue("ndarray", length, << >>)

PyObject(type) == PyValue(type, 0, << >>)

\* the classes an object of the given class is an instance of
Bases(type) ==
    CASE type = "bool" -> { "bool", "int" }
      [] type = "DingModelFrequency" -> { "DingModelFrequency", "FesModel" }
      [] type = "DingModelPulseIntensityFrequency" ->
             { "DingModelPulseIntensityFrequency", "DingModelFrequency", "FesModel" }
      [] OTHER -> { type }

\* isinstance(value, classes)
IsInstance(value, classes) == Bases(value.type) \cap classes # { }

\* bool(value): None, zero, and empty strings and lists are false
Truthy(value) ==
    CASE value.type = "NoneType" -> FALSE
      [] value.type \in { "int", "float", "bool", "str", "list" } -> value.num # 0
      [] OTHER -> TRUE

\* standard_rest_values: one row per state, Cn and F at rest
StandardRestValues(self) == << << 0 >>, << 0 >> >>

\* muscle names given to the constructor: None, or a name of six letters
MuscleNames == { PyNone, PyStr(6) }

\* name_dof: a name is its stem and its suffix; the suffix is "_" + muscle_name
\* only when a muscle name is set and with_muscle_name is true
NameDof(muscle_name, with_muscle_name) ==
    LET suffix == IF Truthy(muscle_name) /\ with_muscle_name
                  THEN << "_", muscle_name >> ELSE << >>
    IN  << << "Cn", suffix >>, << "F", suffix >> >>

\* nb_state
NbState(self) == 2

\* a state name equal to a bare string
NameIs(name, stem) == name = << stem, << >> >>

\* max_bounds[i] after the loop over the state names
MaxBounds(name, rest) ==
    LET after_cn == IF NameIs(name, "Cn") THEN << 2 >> ELSE rest
    IN  IF NameIs(name, "F") THEN << 1000 >>
        ELSE IF NameIs(name, "Tau1") \/ NameIs(name, "Km") THEN << 1 >>
        ELSE after_cn

\* min_bounds[i] after the loop over the state names
MinBounds(name, rest) ==
    IF ~ NameIs(name, "F") /\ ~ NameIs(name, "Tau1") /\ ~ NameIs(name, "Km")
       /\ NameIs(name, "A")
    THEN << 0 >> ELSE rest

\* np.concatenate(..., axis=1) of three one-column rows: the first node, the
\* intermediate nodes, the last node
StartingBoundsMin(starting, min_bounds) == starting \o min_bounds \o min_bounds

StartingBoundsMaxNoStart(starting, max_bounds) == max_bounds \o max_bounds \o max_bounds

StartingBoundsMax(starting, max_bounds) == starting \o max_bounds \o max_bounds

\* OcpFes._set_bounds: x_bounds and x_init, one entry per state name
SetBounds(self, muscle_name) ==
    LET variable_bound_list == NameDof(muscle_name, FALSE)
        rest == StandardRestValues(self)
    IN  [ x_bounds |->
              [ j \in DOMAIN variable_bound_list |->
                  [ key |-> variable_bound_list[j],
                    min_bound |-> StartingBoundsMin(rest[j],
                                      MinBounds(variable_bound_list[j], rest[j])),
                    max_bound |-> StartingBoundsMax(rest[j],
                                      MaxBounds(variable_bound_list[j], rest[j])) ] ],
          x_init |->
              [ j \in DOMAIN variable_bound_list |->
                  [ key |-> variable_bound_list[j], init |-> rest[j] ] ] ]

\* ---- OcpFes._sanity_check
\* raise: the exception and its message
Raise(exception, message) == [ raised |-> exception, message |-> message, value |-> PyNone ]

\* a normal return with a value
Return(value) == [ raised |-> "none", message |-> "", value |-> value ]

\* nothing was raised
Passed == Return(PyNone)

\* the model must be a FesModel or a FesMskModel
ModelCheck(m) ==
    IF ~ IsInstance(m, { "FesModel" })
    THEN IF IsInstance(m, { "FesMskModel" })
         THEN Passed
         ELSE Raise("TypeError", "The current model type used is not a FesModel type")
    ELSE Passed

NShootingCheck(n) ==
    IF ~ IsInstance(n, { "int" }) \/ n.num < 0
    THEN Raise("TypeError", "n_shooting must be a positive int type")
    ELSE Passed

FinalTimeCheck(t) ==
    IF ~ IsInstance(t, { "int", "float" }) \/ t.num < 0
    THEN Raise("TypeError", "final_time must be a positive int or float type")
    ELSE Passed

\* objective["force_tracking"]: items [0] and [1] are read before the list
\* size is looked at, [1] only when [0] is an np.ndarray
ForceTrackingCheck(force_tracking) ==
    IF force_tracking.type = "NoneType" THEN Passed
    ELSE IF ~ IsInstance(force_tracking, { "list" })
    THEN Raise("TypeError", "force_tracking must be list type")
    ELSE IF Len(force_tracking.items) < 1
    THEN Raise("IndexError", "list index out of range")
    ELSE IF ~ IsInstance(force_tracking.items[1], { "ndarray" })
    THEN Raise("TypeError", "force_tracking argument must be np.ndarray type")
    ELSE IF Len(force_tracking.items) < 2
    THEN Raise("IndexError", "list index out of range")
    ELSE IF ~ IsInstance(force_tracking.items[2], { "ndarray" })
    THEN Raise("TypeError", "force_tracking argument must be np.ndarray type")
    ELSE IF \/ force_tracking.items[1].num # force_tracking.items[2].num
            \/ Len(force_tracking.items) # 2
    THEN Raise("ValueError",
               "force_tracking time and force argument must be same length and force_tracking list size 2")
    ELSE Passed

EndNodeTrackingCheck(end_node_tracking) ==
    IF end_node_tracking.type # "NoneType"
       /\ ~ IsInstance(end_node_tracking, { "int", "float" })
    THEN Raise("TypeError", "end_node_tracking must be int or float type")
    ELSE Passed

\* objective["custom"]: an ObjectiveList whose first phase holds Objective only
CustomCheck(custom) ==
    IF custom.type = "NoneType" THEN Passed
    ELSE IF ~ IsInstance(custom, { "ObjectiveList" })
    THEN Raise("TypeError", "custom_objective must be a ObjectiveList type")
    ELSE IF ~ \A i \in DOMAIN custom.items : IsInstance(custom.items[i], { "Objective" })
    THEN Raise("TypeError", "All elements in ObjectiveList must be an Objective type")
    ELSE Passed

OdeSolverCheck(ode_solver) ==
    IF ~ IsInstance(ode_solver, { "RK1", "RK2", "RK4", "COLLOCATION" })
    THEN Raise("TypeError", "ode_solver must be a OdeSolver type")
    ELSE Passed

UseSxCheck(use_sx) ==
    IF ~ IsInstance(use_sx, { "bool" })
    THEN Raise("TypeError", "use_sx must be a bool type")
    ELSE Passed

NThreadsCheck(n_threads) ==
    IF ~ IsInstance(n_threads, { "int" })
    THEN Raise("TypeError", "n_thread must be a int type")
    ELSE Passed

\* the statements run in order: the outcome is the first exception raised
LastRaised(checks) ==
    IF \A i \in DOMAIN checks : checks[i] = Passed THEN Passed
    ELSE checks[CHOOSE i \in DOMAIN checks :
                    /\ checks[i] # Passed
                    /\ \A j \in DOMAIN checks : checks[j] # Passed => j <= i]

FirstRaised(checks) ==
    IF \A i \in DOMAIN checks : checks[i] = Passed THEN Passed
    ELSE checks[CHOOSE i \in DOMAIN checks :
                    /\ checks[i] # Passed
                    /\ \A j \in DOMAIN checks : checks[j] # Passed => i <= j]

\* OcpFes._sanity_check(model, n_shooting, final_time, objective, use_sx,
\* ode_solver, n_threads)
SanityCheck(a) ==
    FirstRaised(<< ModelCheck(a.model),
                   NShootingCheck(a.n_shooting),
                   FinalTimeCheck(a.final_time),
                   ForceTrackingCheck(a.objective.items["force_tracking"]),
                   EndNodeTrackingCheck(a.objective.items["end_node_tracking"]),
                   CustomCheck(a.objective.items["custom"]),
                   OdeSolverCheck(a.ode_solver),
                   UseSxCheck(a.use_sx),
                   NThreadsCheck(a.n_threads) >>)

\* ---- OcpFes._fill_dict
\* a dict: items maps each key to its value
PyDict(items) == PyValue("dict", Cardinality(DOMAIN items), items)

DefaultPulseWidth ==
    PyDict([ fixed |-> PyNone, min |-> PyNone, max |-> PyNone, bimapping |-> PyBool(FALSE) ])

DefaultPulseIntensity ==
    PyDict([ fixed |-> PyNone, min |-> PyNone, max |-> PyNone, bimapping |-> PyBool(FALSE) ])

DefaultObjective ==
    PyDict([ force_tracking |-> PyNone, end_node_tracking |-> PyNone,
             cycling |-> PyNone, custom |-> PyNone ])

\* {} if argument is None else argument
OrEmpty(argument) == IF argument.type = "NoneType" THEN PyDict(<< >>) ELSE argument

\* {**first, **second} with the operands exchanged
MergeDefaultsLast(first, second) ==
    PyDict([ k \in DOMAIN first.items \cup DOMAIN second.items |->
                IF k \in DOMAIN first.items THEN first.items[k] ELSE second.items[k] ])

\* {**first, **second}: a new dict, the keys of second override those of first
Merge(first, second) ==
    PyDict([ k \in DOMAIN first.items \cup DOMAIN second.items |->
                IF k \in DOMAIN second.items THEN second.items[k] ELSE first.items[k] ])

\* OcpFes._fill_dict(pulse_width, pulse_intensity, objective)
FillDict(pulse_width, pulse_intensity, objective) ==
    << Merge(DefaultPulseWidth, OrEmpty(pulse_width)),
       Merge(DefaultPulseIntensity, OrEmpty(pulse_intensity)),
       Merge(DefaultObjective, OrEmpty(objective)) >>

\* ---- OcpFesId._set_parameters and OcpFes._build_parameters
\* np.array(items)
NdArrayOf(items) == PyValue("ndarray", Len(items), items)

\* [value] * n
Repeat(value, n) == [ i \in 1..n |-> value ]

\* parameters.add, parameters_bounds.add and parameters_init.add under one key
Parameter(size, min_bound, max_bound, initial_guess) ==
    [ size |-> size, min_bound |-> min_bound, max_bound |-> max_bound,
      initial_guess |-> initial_guess ]

\* the pulse_apparition_time parameter
PulseApparitionTimeParameter(n_stim, stim_apparition_time) ==
    Parameter(n_stim, stim_apparition_time, stim_apparition_time,
              NdArrayOf(stim_apparition_time.items))

\* one identified parameter, bounded as parameter_setting says
IdentifiedParameter(setting) ==
    Parameter(1, NdArrayOf(<< setting.min_bound >>), NdArrayOf(<< setting.max_bound >>),
              NdArrayOf(<< setting.initial_guess >>))

\* the pulse_width parameter of the identification problem
PulseWidthParameter(n_stim, pulse_width) ==
    LET fixed == pulse_width.items["fixed"]
    IN  IF IsInstance(fixed, { "list" })
        THEN Parameter(n_stim, NdArrayOf(fixed.items), NdArrayOf(fixed.items),
                       NdArrayOf(fixed.items))
        ELSE Parameter(n_stim, NdArrayOf(Repeat(fixed, n_stim)),
                       NdArrayOf(Repeat(fixed, n_stim)),
                       NdArrayOf(Repeat(pulse_width, n_stim)))

\* the pulse_intensity parameter, of both problems
PulseIntensityParameter(n_stim, pulse_intensity) ==
    LET fixed == pulse_intensity.items["fixed"]
    IN  IF IsInstance(fixed, { "list" })
        THEN Parameter(n_stim, NdArrayOf(fixed.items), NdArrayOf(fixed.items),
                       NdArrayOf(fixed.items))
        ELSE Parameter(n_stim, NdArrayOf(Repeat(fixed, n_stim)),
                       NdArrayOf(Repeat(fixed, n_stim)),
                       NdArrayOf(Repeat(fixed, n_stim)))

\* OcpFesId._set_parameters: what was added under each parameter name
SetParameters(n_stim, stim_apparition_time, to_identify, setting, pulse_width, pulse_intensity) ==
    LET keys == { "pulse_apparition_time" }
                \cup { to_identify[i] : i \in DOMAIN to_identify }
                \cup (IF Truthy(pulse_width.items["fixed"]) THEN { "pulse_width" } ELSE { })
                \cup (IF Truthy(pulse_intensity.items["fixed"])
                      THEN { "pulse_intensity" } ELSE { })
    IN  [ k \in keys |->
            CASE k = "pulse_intensity" -> PulseIntensityParameter(n_stim, pulse_intensity)
              [] k = "pulse_width" -> PulseWidthParameter(n_stim, pulse_width)
              [] k = "pulse_apparition_time" ->
                     PulseApparitionTimeParameter(n_stim, stim_apparition_time)
              [] OTHER -> IdentifiedParameter(setting[k]) ]

\* the pulse_intensity parameter bounded by pulse_intensity["max"]
MaxIntensityParameter(n_stim, min_pulse_intensity, max) ==
    Parameter(n_stim, PyList(<< min_pulse_intensity >>), PyList(<< max >>),
              NdArrayOf(Repeat(PyFloat((min_pulse_intensity.num + max.num) \div 2), n_stim)))

\* OcpFes._build_parameters: what was added under each parameter name
BuildParameters(m, stims, pulse_intensity, min_pulse_intensity) ==
    LET n_stim == IF Truthy(pulse_intensity.items["bimapping"]) THEN 1 ELSE Len(stims)
    IN  IF ~ IsInstance(m, { "DingModelPulseIntensityFrequency" }) THEN << >>
        ELSE IF Truthy(pulse_intensity.items["fixed"])
        THEN [ k \in { "pulse_intensity" } |->
                 PulseIntensityParameter(n_stim, pulse_intensity) ]
        ELSE IF Truthy(pulse_intensity.items["max"])
        THEN [ k \in { "pulse_intensity" } |->
                 MaxIntensityParameter(n_stim, min_pulse_intensity,
                                       pulse_intensity.items["max"]) ]
        ELSE << >>

\* ---- the arguments the helpers are called with
MaxListLen == 3   \* length of a force_tracking list

\* lengths of the np.ndarray given as force_tracking time and force
ArrayLengths == { 1, 2 }

\* the items of a force_tracking list: arrays, or a string
ForceTrackingItems == { NdArray(n) : n \in ArrayLengths } \cup { PyStr(5) }

ForceTrackingValues ==
    { PyNone, PyStr(5) }
    \cup { PyList(items) : items \in UNION { [1..n -> ForceTrackingItems] : n \in 0..MaxListLen } }

SanityModels == { PyObject("DingModelFrequency"), PyObject("FesMskModel"), PyStr(5) }

NShootingValues == { PyInt(-1), PyInt(0), PyInt(2), PyFloat(2), PyBool(TRUE) }

FinalTimeValues == { PyInt(-1), PyInt(0), PyInt(1), PyFloat(1), PyStr(1) }

\* the arguments checked after force_tracking, as prepare_ocp passes them
ValidArguments ==
    [ end_node_tracking |-> PyNone,
      custom |-> PyValue("ObjectiveList", 1, << PyObject("Objective") >>),
      ode_solver |-> PyObject("RK4"),
      use_sx |-> PyBool(TRUE),
      n_threads |-> PyInt(1) ]

\* ... and with one of them of a wrong type
OtherArguments ==
    { ValidArguments,
      [ ValidArguments EXCEPT !.end_node_tracking = PyStr(5) ],
      [ ValidArguments EXCEPT !.custom = PyValue("ObjectiveList", 1, << PyStr(5) >>) ],
      [ ValidArguments EXCEPT !.n_threads = PyFloat(1) ] }

\* the dicts with some of the keys, each given one of the values
DictsOver(keys, values) ==
    { PyDict(items) : items \in UNION { [ks -> values] : ks \in SUBSET keys } }

\* pulse widths in microseconds, intensities in mA
PulseWidthArguments ==
    { PyNone } \cup DictsOver({ "fixed", "bimapping" }, { PyNone, PyFloat(300), PyBool(TRUE) })

PulseIntensityArguments == { PyNone } \cup DictsOver({ "max" }, { PyNone, PyFloat(40) })

ObjectiveArguments ==
    { PyNone } \cup DictsOver({ "end_node_tracking", "extra" }, { PyNone, PyFloat(100) })

\* the stimulation times the identification is prepared with, and their count
StimArguments ==
    { PyList([ i \in DOMAIN s |-> PyFloat(s[i]) ]) :
        s \in { q \in UNION { [1..n -> 0..MaxTick] : n \in 1..MaxStim } :
                  \A i \in DOMAIN q : i > 1 => q[i - 1] < q[i] } }

\* a 'fixed' entry: not set, zero, one value for all, or one value each
FixedValues(n_stim, value) ==
    { PyNone, PyFloat(0), PyFloat(value),
      PyList([ i \in 1..n_stim |-> PyFloat(value + i) ]) }

\* additional_key_settings of the one parameter identified here
ParameterSetting ==
    [ a_rest |-> [ min_bound |-> PyFloat(1), max_bound |-> PyFloat(10000),
                   initial_guess |-> PyFloat(1000) ] ]

\* ---- the helpers, called in any order
InitOcpFes ==
    /\ final_time = << 1, 1 >>
    /\ stim_time = << >>
    /\ pc = "ocp_fes"
    /\ stim_pos = 0
    /\ n_shooting = NShootingStart
    /\ warned = FALSE
    /\ sum_stim_truncation = 0
    /\ control_type = "CONSTANT"
    /\ stim_at_node = << >>
    /\ node = 0
    /\ index_sup = 0
    /\ index_inf = 0
    /\ stim_index = << >>
    /\ constraints = << >>
    /\ a_calculation = << >>
    /\ \E approx \in BOOLEAN : model = DingModelFrequency(approx)
    /\ last_set = IdentifiableParameters(model)
    /\ call = NoCall
    /\ returned = None

set_bounds ==
    /\ pc = "ocp_fes"
    /\ \E muscle_name \in MuscleNames :
        /\ pc' = "returned"
        /\ call' = [ method |-> "_set_bounds", muscle_name |-> muscle_name ]
        /\ returned' = Return(SetBounds(model, muscle_name))
        /\ UNCHANGED << prepVars, buildVars, model, last_set >>

sanity_check ==
    /\ pc = "ocp_fes"
    /\ \E m \in SanityModels, n \in NShootingValues, t \in FinalTimeValues :
        \E force_tracking \in ForceTrackingValues, other \in OtherArguments :
            LET objective == Merge(DefaultObjective,
                                   PyDict([ force_tracking |-> force_tracking,
                                            end_node_tracking |-> other.end_node_tracking,
                                            custom |-> other.custom ]))
                arguments == [ model |-> m, n_shooting |-> n, final_time |-> t,
                               objective |-> objective, use_sx |-> other.use_sx,
                               ode_solver |-> other.ode_solver,
                               n_threads |-> other.n_threads ]
            IN  /\ pc' = "returned"
                /\ call' = [ method |-> "_sanity_check", arguments |-> arguments ]
                /\ returned' = SanityCheck(arguments)
                /\ UNCHANGED << prepVars, buildVars, model, last_set >>

\* the arguments are only read: the caller's objects are as they were passed
fill_dict ==
    /\ pc = "ocp_fes"
    /\ \E pulse_width \in PulseWidthArguments, pulse_intensity \in PulseIntensityArguments :
        \E objective \in ObjectiveArguments :
            /\ pc' = "returned"
            /\ call' = [ method |-> "_fill_dict",
                         pulse_width |-> pulse_width,
                         pulse_intensity |-> pulse_intensity,
                         objective |-> objective,
                         after |-> << pulse_width, pulse_intensity, objective >> ]
            /\ returned' = Return(FillDict(pulse_width, pulse_intensity, objective))
            /\ UNCHANGED << prepVars, buildVars, model, last_set >>

\* OcpFesId.prepare_ocp passes n_stim = len(stim_time) and the filled dicts
set_parameters ==
    /\ pc = "ocp_fes"
    /\ \E stim_apparition_time \in StimArguments, to_identify \in { << >>, << "a_rest" >> } :
        LET n_stim == Len(stim_apparition_time.items)
        IN  \E width \in FixedValues(n_stim, 300), intensity \in FixedValues(n_stim, 40) :
                LET pulse_width == Merge(DefaultPulseWidth, PyDict([ fixed |-> width ]))
                    pulse_intensity == Merge(DefaultPulseIntensity,
                                             PyDict([ fixed |-> intensity ]))
                IN  /\ pc' = "returned"
                    /\ call' = [ method |-> "_set_parameters", n_stim |-> n_stim,
                                 stim_apparition_time |-> stim_apparition_time,
                                 parameter_to_identify |-> to_identify,
                                 pulse_width |-> pulse_width,
                                 pulse_intensity |-> pulse_intensity ]
                    /\ returned' = Return(SetParameters(n_stim, stim_apparition_time,
                                                        to_identify, ParameterSetting,
                                                        pulse_width, pulse_intensity))
                    /\ UNCHANGED << prepVars, buildVars, model, last_set >>

\* OcpFes.prepare_ocp passes the model and the filled pulse_intensity
build_parameters ==
    /\ pc = "ocp_fes"
    /\ \E m \in { PyObject("DingModelFrequency"), PyObject("DingModelPulseIntensityFrequency") } :
        \E stim \in StimArguments, bimapping \in BOOLEAN, max \in { PyNone, PyFloat(60) } :
            \E intensity \in FixedValues(Len(stim.items), 40) :
                LET pulse_intensity ==
                        Merge(DefaultPulseIntensity,
                              PyDict([ fixed |-> intensity, max |-> max,
                                       bimapping |-> PyBool(bimapping) ]))
                IN  /\ pc' = "returned"
                    /\ call' = [ method |-> "_build_parameters", model |-> m,
                                 stim_time |-> stim, pulse_intensity |-> pulse_intensity ]
                    /\ returned' = Return(BuildParameters(m, stim.items, pulse_intensity,
                                                          PyFloat(20)))
                    /\ UNCHANGED << prepVars, buildVars, model, last_set >>

\* the caller goes on and may call another helper
ResumeOcpFes ==
    /\ pc = "returned"
    /\ pc' = "ocp_fes"
    /\ call' = NoCall
    /\ returned' = None
    /\ UNCHANGED << prepVars, buildVars, model, last_set >>

NextOcpFes ==
    \/ set_bounds
    \/ sanity_check
    \/ fill_dict
    \/ set_parameters
    \/ build_parameters
    \/ ResumeOcpFes

SpecHelpers == InitOcpFes /\ [][NextOcpFes]_vars



\* ============================================================ data processing
\* full_data_extraction, C3dToForce.slice_data and the down-sampling of
\* C3dToForce.__init__ run as loops: call holds the arguments and the local
\* variables of the function running, returned what it gave back.

MaxFiles == 3     \* data files read in one call

\* the pickled content of a data file: the stimulation times, the time
\* samples from the first stimulation on, either one flat list or a list of
\* rows (one row per slice), and the force
DataFile(stim, rows, force) ==
    [ stim_time |-> stim,
      time |-> IF rows THEN << << stim[1], stim[1] + 1 >>, << stim[1] + 2 >> >>
                       ELSE << stim[1], stim[1] + 1, stim[1] + 2 >>,
      rows |-> rows,
      force |-> force ]

DataFiles ==
    { DataFile(<< 0, 1 >>, rows, << 7, 8 >>) : rows \in BOOLEAN }
    \cup { DataFile(<< 0 >>, rows, << 9 >>) : rows \in BOOLEAN }
    \cup { DataFile(<< 1, 2, 3 >>, rows, << 4, 5, 6 >>) : rows \in BOOLEAN }

\* the files behind model_data_path
DataPaths == UNION { [1..n -> DataFiles] : n \in 0..MaxFiles }

\* [value + offset for value in list]
Shifted(list, offset) == [ k \in DOMAIN list |-> list[k] + offset ]

\* [[value + offset for value in row] for row in rows]
ShiftedRows(rows, offset) == [ r \in DOMAIN rows |-> Shifted(rows[r], offset) ]

\* list[-1]
LastOf(list) == list[Len(list)]

\* [item for sublist in lists for item in sublist]
RECURSIVE Expand(_)
Expand(lists) ==
    IF lists = << >> THEN << >> ELSE Head(lists) \o Expand(Tail(lists))

\* the entry appended to discontinuity_phase_list, without the running total
DiscontinuityNoTotal(discontinuity_phase_list, global_stim) ==
    Len(LastOf(global_stim))

\* the entry appended to discontinuity_phase_list for a file after the first
Discontinuity(discontinuity_phase_list, global_stim) ==
    IF discontinuity_phase_list = << >>
    THEN Len(LastOf(global_stim))
    ELSE LastOf(discontinuity_phase_list) + Len(LastOf(global_stim))

\* the stimulation times of a file after the first: the offset is added by
\* the statement before and again by the statement after the time shift
StimShift(model_stim_apparition_time, offset) ==
    Shifted(Shifted(model_stim_apparition_time, offset), offset)

\* the time samples of a file after the first
TimeShift(model_time_data, offset) == Shifted(model_time_data, offset)

\* no data processing function is running
InitData ==
    /\ final_time = << 1, 1 >>
    /\ stim_time = << >>
    /\ pc = "data"
    /\ stim_pos = 0
    /\ n_shooting = NShootingStart
    /\ warned = FALSE
    /\ sum_stim_truncation = 0
    /\ control_type = "CONSTANT"
    /\ stim_at_node = << >>
    /\ node = 0
    /\ index_sup = 0
    /\ index_inf = 0
    /\ stim_index = << >>
    /\ constraints = << >>
    /\ a_calculation = << >>
    /\ model = DingModelFrequency(FALSE)
    /\ last_set = IdentifiableParameters(model)
    /\ call = NoCall
    /\ returned = None

\* full_data_extraction(model_data_path): the lists are empty before the loop
full_data_extraction ==
    /\ pc = "data"
    /\ \E data \in DataPaths :
        /\ pc' = "extraction"
        /\ call' = [ method |-> "full_data_extraction",
                     data |-> data,
                     i |-> 0,
                     global_model_muscle_data |-> << >>,
                     global_model_stim_apparition_time |-> << >>,
                     global_model_time_data |-> << >>,
                     discontinuity_phase_list |-> << >> ]
        /\ UNCHANGED << prepVars, buildVars, model, last_set, returned >>

\* one pass of the loop over the files. A flat time list cannot be re-based
\* (its items are not iterable), a row cannot be added to a number: both
\* raise TypeError.
ExtractFile ==
    /\ pc = "extraction"
    /\ call.i < Len(call.data)
    /\ LET i == call.i
           data == call.data[i + 1]
           first_stim == data.stim_time[1]
           rebase_raises == first_stim # 0 /\ ~ data.rows
           rebased_stim == IF first_stim = 0 THEN data.stim_time
                           ELSE Shifted(data.stim_time, - first_stim)
           rebased_time == IF first_stim = 0 THEN data.time
                           ELSE ShiftedRows(data.time, - first_stim)
           shift_raises == i # 0 /\ (call.data[i].rows \/ data.rows)
           offset == LastOf(call.global_model_time_data[i])
           model_stim_apparition_time ==
               IF i # 0 THEN StimShift(rebased_stim, offset) ELSE rebased_stim
           model_time_data ==
               IF i # 0 THEN TimeShift(rebased_time, offset) ELSE rebased_time
       IN  IF rebase_raises \/ shift_raises
           THEN /\ pc' = "returned"
                /\ returned' = Raise("TypeError", "unsupported operand type")
                /\ UNCHANGED call
           ELSE /\ call' =
                    [ call EXCEPT
                        !.i = i + 1,
                        !.discontinuity_phase_list =
                            IF i # 0
                            THEN Append(@, Discontinuity(@,
                                     call.global_model_stim_apparition_time))
                            ELSE @,
                        !.global_model_muscle_data = Append(@, data.force),
                        !.global_model_stim_apparition_time =
                            Append(@, model_stim_apparition_time),
                        !.global_model_time_data = Append(@, model_time_data) ]
                /\ UNCHANGED << pc, returned >>
    /\ UNCHANGED << prepVars, buildVars, model, last_set >>

\* after the last file the global lists are expanded and returned
ReturnExtraction ==
    /\ pc = "extraction"
    /\ call.i = Len(call.data)
    /\ pc' = "returned"
    /\ returned' = Return(<< Expand(call.global_model_time_data),
                             Expand(call.global_model_stim_apparition_time),
                             Expand(call.global_model_muscle_data),
                             call.discontinuity_phase_list >>)
    /\ UNCHANGED << prepVars, buildVars, model, last_set, call >>

\* ---- C3dToForce.slice_data
MaxData == 4      \* samples of the force given to slice_data

\* the six channels x, y, z, mx, my, mz of the force sensor
NbChannels == 6

\* the force on the main axis, sample by sample
Signals == UNION { [1..n -> { -1, 0, 1 }] : n \in 0..MaxData }

\* data: one row per channel; channel 0 is the signal, the others drift
ChannelsOf(signal) ==
    [ c \in 1..NbChannels |-> [ j \in DOMAIN signal |-> signal[j] + (c - 1) * j ] ]

\* time: one value per sample, here the index of the sample
TimeOf(signal) == [ j \in DOMAIN signal |-> j - 1 ]

\* the peaks stimulation_detection found: increasing sample indices, the
\* last possibly moved past the end of the data by average_time_difference
PeakLists ==
    { p \in UNION { [1..n -> 0..MaxData] : n \in 0..(MaxData + 1) } :
        \A i \in DOMAIN p : i > 1 => p[i - 1] < p[i] }

\* list[first:last], indices counted from 0
PySlice(list, first, last) ==
    IF last <= first THEN << >>
    ELSE SubSeq(list, first + 1, IF last < Len(list) THEN last ELSE Len(list))

\* data[:, first:] minus data[:, first], row by row
SubstractToZero(data, first) ==
    [ c \in DOMAIN data |->
        [ j \in DOMAIN data[c] |->
            IF j - 1 >= first THEN data[c][j] - data[c][first + 1] ELSE data[c][j] ] ]

\* the indices from first on where the force has risen above its value at
\* first: -data[main_axis, index] < 0
Released(data, main_axis, first) ==
    { j \in first..(Len(data[main_axis + 1]) - 1) : - data[main_axis + 1][j + 1] < 0 }

\* the peaks kept for the next slice, those not after the end included
PeaksFromLast(temp_stimulation_peaks, last) ==
    SelectSeq(temp_stimulation_peaks, LAMBDA peaks : peaks >= last)

\* the peaks kept for the next slice
PeaksAfter(temp_stimulation_peaks, last) ==
    SelectSeq(temp_stimulation_peaks, LAMBDA peaks : peaks > last)

\* slice_data(time, data, stimulation_peaks): the lists are empty before the loop
slice_data ==
    /\ pc = "data"
    /\ \E signal \in Signals, stimulation_peaks \in PeakLists :
        /\ pc' = "slicing"
        /\ call' = [ method |-> "slice_data",
                     time |-> TimeOf(signal),
                     data |-> ChannelsOf(signal),
                     main_axis |-> 0,
                     stimulation_peaks |-> stimulation_peaks,
                     temp_stimulation_peaks |-> stimulation_peaks,
                     sliced_time |-> << >>,
                     sliced_data |-> [ c \in 1..NbChannels |-> << >> ] ]
        /\ UNCHANGED << prepVars, buildVars, model, last_set, returned >>

\* one pass of the while loop: a peak outside the data raises IndexError, a
\* force that never rises again raises StopIteration, otherwise a slice is
\* appended to every list and the peaks up to its end are dropped
SliceStep ==
    /\ pc = "slicing"
    /\ call.temp_stimulation_peaks # << >>
    /\ LET first == call.temp_stimulation_peaks[1]
           data == SubstractToZero(call.data, first)
           released == Released(data, call.main_axis, first)
           last == SetMin(released)
       IN  IF first >= Len(call.time)
           THEN /\ pc' = "returned"
                /\ returned' = Raise("IndexError", "index is out of bounds")
                /\ UNCHANGED call
           ELSE IF released = { }
           THEN /\ pc' = "returned"
                /\ returned' = Raise("StopIteration", "")
                /\ call' = [ call EXCEPT !.data = data ]
           ELSE /\ call' =
                    [ call EXCEPT
                        !.data = data,
                        !.sliced_data =
                            [ c \in 1..NbChannels |->
                                Append(@[c], PySlice(data[c], first, last)) ],
                        !.sliced_time = Append(@, PySlice(call.time, first, last)),
                        !.temp_stimulation_peaks = PeaksAfter(@, last) ]
                /\ UNCHANGED << pc, returned >>
    /\ UNCHANGED << prepVars, buildVars, model, last_set >>

\* no peak is left: the slices are returned
ReturnSlices ==
    /\ pc = "slicing"
    /\ call.temp_stimulation_peaks = << >>
    /\ pc' = "returned"
    /\ returned' = Return(<< call.sliced_time, call.sliced_data >>)
    /\ UNCHANGED << prepVars, buildVars, model, last_set, call >>

\* ---- the down-sampling of C3dToForce.__init__
MaxSamples == 21  \* samples of a slice before the down-sampling

MaxSlices == 2    \* slices given to the down-sampling

\* the counter value at which a sample is kept
CounterResetEarly == 10 - 2

CounterReset == 9

\* remove_list: the indices m..n-1 appended while the counter runs
RECURSIVE RemoveList(_, _, _)
RemoveList(m, n, counter) ==
    IF m >= n THEN << >>
    ELSE IF counter = CounterReset THEN RemoveList(m + 1, n, 0)
    ELSE << m >> \o RemoveList(m + 1, n, counter + 1)

\* remove_list.reverse()
RECURSIVE Reversed(_)
Reversed(list) ==
    IF list = << >> THEN << >> ELSE Append(Reversed(Tail(list)), Head(list))

\* list.pop(l), indices counted from 0
Pop(list, l) == SubSeq(list, 1, l) \o SubSeq(list, l + 2, Len(list))

\* for l in remove_list: list.pop(l)
RECURSIVE PopAll(_, _)
PopAll(list, remove_list) ==
    IF remove_list = << >> THEN list
    ELSE PopAll(Pop(list, Head(remove_list)), Tail(remove_list))

\* one list after the down-sampling
DownSample(list) == PopAll(list, Reversed(RemoveList(1, Len(list), 0)))

\* the slices slice_data returned: the sample at index m of slice j holds
\* its slice and index, on a force channel its channel too
SlicedTimeOf(lengths) ==
    [ j \in DOMAIN lengths |-> [ m \in 1..lengths[j] |-> 100 * j + (m - 1) ] ]

SlicedDataOf(lengths) ==
    [ k \in 1..NbChannels |->
        [ j \in DOMAIN lengths |->
            [ m \in 1..lengths[j] |-> 1000 * k + 100 * j + (m - 1) ] ] ]

SliceLengths == UNION { [1..n -> 0..MaxSamples] : n \in 0..MaxSlices }

\* if down_sample: every channel of every slice, then the time of the slice
down_sample ==
    /\ pc = "data"
    /\ \E lengths \in SliceLengths :
        LET sliced_time == SlicedTimeOf(lengths)
            sliced_data == SlicedDataOf(lengths)
        IN  /\ pc' = "returned"
            /\ call' = [ method |-> "down_sample", sliced_time |-> sliced_time,
                         sliced_data |-> sliced_data ]
            /\ returned' =
                   Return(<< [ j \in DOMAIN sliced_time |-> DownSample(sliced_time[j]) ],
                             [ k \in DOMAIN sliced_data |->
                                 [ j \in DOMAIN sliced_data[k] |->
                                     DownSample(sliced_data[k][j]) ] ] >>)
            /\ UNCHANGED << prepVars, buildVars, model, last_set >>

\* the caller has the result and may start another function
ResumeData ==
    /\ pc = "returned"
    /\ pc' = "data"
    /\ call' = NoCall
    /\ returned' = None
    /\ UNCHANGED << prepVars, buildVars, model, last_set >>

NextData ==
    \/ full_data_extraction
    \/ ExtractFile
    \/ ReturnExtraction
    \/ slice_data
    \/ SliceStep
    \/ ReturnSlices
    \/ down_sample
    \/ ResumeData

SpecData == InitData /\ [][NextData]_vars

\* the loops keep running until they return or raise
SpecDataLoops ==
    /\ SpecData
    /\ WF_vars(ExtractFile) /\ WF_vars(ReturnExtraction)
    /\ WF_vars(SliceStep) /\ WF_vars(ReturnSlices)

\* ============================================================ properties of the helpers
\* the helper named has returned or raised
HelperReturned(method) == pc = "returned" /\ call.method = method

\* C21: the state starts at rest. standard_rest_values has one row per state
\* name (nb_state = 2 rows) with Cn = F = 0; in the bounds _set_bounds
\* returns, the minimum and the maximum of every state at the first node
\* are its rest value, and at the later nodes the minimum is not above the
\* maximum.
C21_StartsAtRest ==
    HelperReturned("_set_bounds") =>
        LET rest == StandardRestValues(model)
            x_bounds == returned.value.x_bounds
        IN  /\ rest = << << 0 >>, << 0 >> >>
            /\ Len(rest) = NbState(model)
            /\ Len(NameDof(call.muscle_name, FALSE)) = NbState(model)
            /\ DOMAIN x_bounds = 1..NbState(model)
            /\ \A j \in DOMAIN x_bounds :
                /\ x_bounds[j].min_bound[1] = rest[j][1]
                /\ x_bounds[j].max_bound[1] = rest[j][1]
                /\ Len(x_bounds[j].min_bound) = Len(x_bounds[j].max_bound)
                /\ \A n \in 2..Len(x_bounds[j].min_bound) :
                       x_bounds[j].min_bound[n] <= x_bounds[j].max_bound[n]

\* the bounds of a model with a muscle name: F may rise to 1000 after the
\* first node
C21_Witness ==
    /\ HelperReturned("_set_bounds")
    /\ call.muscle_name = PyStr(6)
    /\ returned.value.x_bounds[1].max_bound = << 0, 2, 2 >>
    /\ returned.value.x_bounds[2].min_bound = << 0, 0, 0 >>
    /\ returned.value.x_bounds[2].max_bound = << 0, 1000, 1000 >>

\* the checks before force_tracking let the call through
ReachesForceTracking ==
    /\ HelperReturned("_sanity_check")
    /\ ModelCheck(call.arguments.model) = Passed
    /\ NShootingCheck(call.arguments.n_shooting) = Passed
    /\ FinalTimeCheck(call.arguments.final_time) = Passed
    /\ call.arguments.objective.items["force_tracking"].type # "NoneType"

\* every item of the list is an np.ndarray
AllArrays(list) == \A i \in DOMAIN list.items : list.items[i].type = "ndarray"

\* a list of exactly two np.ndarray of equal length
TimeAndForce(value) ==
    /\ value.type = "list"
    /\ Len(value.items) = 2
    /\ AllArrays(value)
    /\ value.items[1].num = value.items[2].num

\* C22: a force_tracking that is not a list of exactly two equal-length
\* np.ndarray is rejected: with TypeError when it is not a list or an item is
\* not an np.ndarray, with ValueError when the list size is not 2 or the two
\* lengths differ, and with no other exception whatever the list length.
C22_ForceTrackingRejected ==
    ReachesForceTracking =>
        LET force_tracking == call.arguments.objective.items["force_tracking"]
        IN  ~ TimeAndForce(force_tracking) =>
                /\ returned.raised \in { "TypeError", "ValueError" }
                /\ (force_tracking.type # "list" \/ ~ AllArrays(force_tracking)) =>
                       returned.raised = "TypeError"
                /\ (force_tracking.type = "list" /\ AllArrays(force_tracking)) =>
                       returned.raised = "ValueError"

\* the model given is neither a FesModel nor a FesMskModel
NotFesModel(m) == Bases(m.type) \cap { "FesModel", "FesMskModel" } = { }

\* C23: a model that is not an FES model raises the TypeError of the model
\* check, whatever the other arguments are: the model is checked first.
C23_ModelCheckedFirst ==
    (HelperReturned("_sanity_check") /\ NotFesModel(call.arguments.model)) =>
        /\ returned.raised = "TypeError"
        /\ returned.message = "The current model type used is not a FesModel type"

\* an invalid model together with an invalid n_shooting, final_time and
\* force_tracking
C23_Witness ==
    /\ HelperReturned("_sanity_check")
    /\ NotFesModel(call.arguments.model)
    /\ call.arguments.n_shooting = PyInt(-1)
    /\ call.arguments.final_time = PyStr(1)
    /\ call.arguments.objective.items["force_tracking"] = PyStr(5)
    /\ returned.raised = "TypeError"

\* a positive number of one of the classes
Positive(value, classes) == value.type \in classes /\ value.num > 0

\* C24: n_shooting is accepted only when it is a positive int and final_time
\* only when it is a positive int or float; any other value, zero included,
\* raises TypeError with the message of the argument.
C24_PositiveOnly ==
    (HelperReturned("_sanity_check") /\ ~ NotFesModel(call.arguments.model)) =>
        LET n == call.arguments.n_shooting
            t == call.arguments.final_time
        IN  /\ ~ Positive(n, { "int" }) =>
                   /\ returned.raised = "TypeError"
                   /\ returned.message = "n_shooting must be a positive int type"
            /\ (Positive(n, { "int" }) /\ ~ Positive(t, { "int", "float" })) =>
                   /\ returned.raised = "TypeError"
                   /\ returned.message = "final_time must be a positive int or float type"

\* what the caller gave: nothing when the argument is None
Given(argument) == IF argument.type = "NoneType" THEN << >> ELSE argument.items

\* the filled dict has every default key, the caller's value under each key
\* the caller gave, and None (False for bimapping) under the others
Filled(result, argument, keys) ==
    /\ result.type = "dict"
    /\ DOMAIN result.items = keys \cup DOMAIN Given(argument)
    /\ \A k \in DOMAIN Given(argument) : result.items[k] = Given(argument)[k]
    /\ \A k \in keys \ DOMAIN Given(argument) :
           result.items[k] = IF k = "bimapping" THEN PyBool(FALSE) ELSE PyNone

\* C25: _fill_dict returns for pulse_width, pulse_intensity and objective a
\* dict with every default key; a key the caller gave keeps the caller's
\* value, a key not given takes its default (None, False for bimapping), a
\* None argument counts as an empty dict, and the caller's dicts are as they
\* were passed.
C25_FillDict ==
    HelperReturned("_fill_dict") =>
        /\ returned.raised = "none"
        /\ Filled(returned.value[1], call.pulse_width,
                  { "fixed", "min", "max", "bimapping" })
        /\ Filled(returned.value[2], call.pulse_intensity,
                  { "fixed", "min", "max", "bimapping" })
        /\ Filled(returned.value[3], call.objective,
                  { "force_tracking", "end_node_tracking", "cycling", "custom" })
        /\ call.after = << call.pulse_width, call.pulse_intensity, call.objective >>

\* the caller gave bimapping but no fixed width, no intensity dict, and an
\* objective with a key of its own
C25_Witness ==
    /\ HelperReturned("_fill_dict")
    /\ call.pulse_width = PyDict([ bimapping |-> PyBool(TRUE) ])
    /\ call.pulse_intensity = PyNone
    /\ call.objective = PyDict([ extra |-> PyFloat(100) ])
    /\ returned.value[1].items =
           [ fixed |-> PyNone, min |-> PyNone, max |-> PyNone, bimapping |-> PyBool(TRUE) ]
    /\ returned.value[2] = DefaultPulseIntensity
    /\ returned.value[3].items["extra"] = PyFloat(100)
    /\ returned.value[3].items["custom"] = PyNone

\* the values a 'fixed' entry gives to the n_stim stimulations
PerStimulation(fixed, n_stim) ==
    IF fixed.type = "list" THEN fixed.items ELSE [ i \in 1..n_stim |-> fixed ]

\* the parameter is pinned: bounds and initial guess hold the values given
Pinned(parameter, values, n_stim) ==
    /\ parameter.size = n_stim
    /\ parameter.min_bound.items = values
    /\ parameter.max_bound.items = values
    /\ parameter.initial_guess.items = values

\* C28: every parameter the caller fixes is pinned in the identification
\* problem: pulse_apparition_time always, pulse_width and pulse_intensity
\* whenever their 'fixed' entry is set, have min_bound = max_bound = initial
\* guess = the value given, for each of the n_stim stimulations.
C28_FixedParametersPinned ==
    HelperReturned("_set_parameters") =>
        LET parameters == returned.value
        IN  /\ "pulse_apparition_time" \in DOMAIN parameters
            /\ Pinned(parameters["pulse_apparition_time"],
                      call.stim_apparition_time.items, call.n_stim)
            /\ \A k \in { "pulse_width", "pulse_intensity" } :
                   Truthy(call[k].items["fixed"]) =>
                       /\ k \in DOMAIN parameters
                       /\ Pinned(parameters[k],
                                 PerStimulation(call[k].items["fixed"], call.n_stim),
                                 call.n_stim)


\* ============================================================ properties of the data processing
\* full_data_extraction is running or has ended
Extracting == call.method = "full_data_extraction"

\* the stimulation times of a file with the first one at 0, then moved
RebasedStim(file, offset) == Shifted(file.stim_time, offset - file.stim_time[1])

\* the time samples of a file moved as its stimulation times are
RebasedTime(file, offset) ==
    IF file.rows THEN ShiftedRows(file.time, offset - file.stim_time[1])
    ELSE Shifted(file.time, offset - file.stim_time[1])

\* the last time value of the file stored at position k
LastTime(k) ==
    IF call.data[k].rows
    THEN LastOf(LastOf(call.global_model_time_data[k]))
    ELSE LastOf(call.global_model_time_data[k])

\* C26: the stimulation times of each file are re-based to start at 0, and
\* for every file after the first the stimulation times and the time samples
\* are moved by one and the same offset, the last time value of the file
\* before, so the stimulations stay aligned with the concatenated time axis.
C26_SameOffset ==
    Extracting =>
        \A k \in DOMAIN call.global_model_time_data :
            LET offset == IF k = 1 THEN 0 ELSE LastTime(k - 1)
            IN  /\ call.global_model_time_data[k] = RebasedTime(call.data[k], offset)
                /\ call.global_model_stim_apparition_time[k] =
                       RebasedStim(call.data[k], offset)

\* the number of stimulations in the first n files
RECURSIVE StimulationsIn(_, _)
StimulationsIn(data, n) ==
    IF n = 0 THEN 0 ELSE StimulationsIn(data, n - 1) + Len(data[n].stim_time)

\* the list is the per-file lists one after the other, in file order
RECURSIVE InFileOrder(_, _)
InFileOrder(list, per_file) ==
    IF per_file = << >> THEN list = << >>
    ELSE /\ Len(list) >= Len(per_file[1])
         /\ SubSeq(list, 1, Len(per_file[1])) = per_file[1]
         /\ InFileOrder(SubSeq(list, Len(per_file[1]) + 1, Len(list)), Tail(per_file))

\* C27: discontinuity_phase_list has one entry per data file after the
\* first, the entry added for file i is the number of stimulations in files
\* 0..i-1, so the list never decreases; the three data lists returned are the
\* per-file lists one after the other in file order.
C27_DiscontinuityPhases ==
    Extracting =>
        LET discontinuity_phase_list == call.discontinuity_phase_list
        IN  /\ Len(discontinuity_phase_list) = IF call.i = 0 THEN 0 ELSE call.i - 1
            /\ \A i \in DOMAIN discontinuity_phase_list :
                /\ discontinuity_phase_list[i] = StimulationsIn(call.data, i)
                /\ i > 1 => discontinuity_phase_list[i - 1] <= discontinuity_phase_list[i]
            /\ (pc = "returned" /\ returned.raised = "none") =>
                /\ call.i = Len(call.data)
                /\ returned.value[4] = discontinuity_phase_list
                /\ InFileOrder(returned.value[1], call.global_model_time_data)
                /\ InFileOrder(returned.value[2], call.global_model_stim_apparition_time)
                /\ InFileOrder(returned.value[3],
                               [ k \in DOMAIN call.data |-> call.data[k].force ])

\* three files were read, with two stimulations, one, and two
C27_Witness ==
    /\ Extracting
    /\ pc = "returned"
    /\ returned.raised = "none"
    /\ Len(call.data) = MaxFiles
    /\ returned.value[4] = << 2, 3 >>
    /\ returned.value[3] = << 7, 8, 9, 7, 8 >>
    /\ Len(returned.value[2]) = 5

\* the samples of a list whose index is a multiple of 10, in order
EveryTenth(list) == [ n \in 1..((Len(list) + 9) \div 10) |-> list[10 * (n - 1) + 1] ]

\* C29: down-sampling keeps of every slice exactly the samples whose index is
\* a multiple of 10, index 0 included, in their order, in the time list and
\* in each of the six force channels alike, so the time and all channels of a
\* slice keep the same length and stay aligned sample by sample.
C29_EveryTenthSample ==
    (pc = "returned" /\ call.method = "down_sample") =>
        LET sliced_time == returned.value[1]
            sliced_data == returned.value[2]
        IN  /\ DOMAIN sliced_time = DOMAIN call.sliced_time
            /\ DOMAIN sliced_data = 1..6
            /\ \A j \in DOMAIN sliced_time :
                /\ sliced_time[j] = EveryTenth(call.sliced_time[j])
                /\ \A k \in DOMAIN sliced_data :
                    /\ sliced_data[k][j] = EveryTenth(call.sliced_data[k][j])
                    /\ Len(sliced_data[k][j]) = Len(sliced_time[j])
                    /\ \A n \in DOMAIN sliced_time[j] :
                           sliced_data[k][j][n] - 1000 * k = sliced_time[j][n]

\* a slice of 21 samples keeps the samples 0, 10 and 20, a slice of 10
\* samples only its first
C29_Witness ==
    /\ pc = "returned"
    /\ call.method = "down_sample"
    /\ Len(call.sliced_time) = 2
    /\ Len(call.sliced_time[1]) = 21
    /\ Len(call.sliced_time[2]) = 10
    /\ returned.value[1] = << << 100, 110, 120 >>, << 200 >> >>
    /\ returned.value[2][6][1] = << 6100, 6110, 6120 >>

\* slice_data is running or has ended
Slicing == call.method = "slice_data"

\* the values of a sequence
Values(list) == { list[i] : i \in DOMAIN list }

\* the slices are in increasing order, do not overlap, hold consecutive
\* samples and start at a stimulation peak each; the time of a sample is its
\* index
SlicesOrdered ==
    Slicing =>
        /\ \A s \in DOMAIN call.sliced_time :
            LET slice == call.sliced_time[s]
            IN  /\ slice # << >>
                /\ slice[1] \in Values(call.stimulation_peaks)
                /\ \A n \in DOMAIN slice : slice[n] = slice[1] + n - 1
                /\ s > 1 => LastOf(call.sliced_time[s - 1]) < slice[1]
                /\ \A c \in DOMAIN call.sliced_data :
                       Len(call.sliced_data[c][s]) = Len(slice)
        /\ \A c \in DOMAIN call.sliced_data :
               Len(call.sliced_data[c]) = Len(call.sliced_time)

\* a pass of the loop raises, or appends one slice and drops the first peak
\* and every other peak up to the end of the slice
SliceStepProgress ==
    (pc = "slicing" /\ pc' = "slicing" /\ call' # call) =>
        LET slice == LastOf(call'.sliced_time)
            last == LastOf(slice) + 1
        IN  /\ Len(call'.sliced_time) = Len(call.sliced_time) + 1
            /\ slice[1] = call.temp_stimulation_peaks[1]
            /\ Len(call'.temp_stimulation_peaks) < Len(call.temp_stimulation_peaks)
            /\ Values(call'.temp_stimulation_peaks) =
                   { p \in Values(call.temp_stimulation_peaks) : p > last }

\* C30: slice_data terminates for every finite peak list: each pass of the
\* loop raises or removes at least the first remaining peak (every peak up to
\* the end of the slice is dropped), and the slices produced are in
\* increasing order, do not overlap, and start at a stimulation peak each.
C30_SliceDataTerminates ==
    /\ [][SliceStepProgress]_vars
    /\ [] SlicesOrdered
    /\ (pc = "slicing") ~> (pc = "returned")

\* two slices were returned, and the peak at the end of the first slice was
\* dropped without starting a slice
C30_Witness ==
    /\ Slicing
    /\ pc = "returned"
    /\ returned.raised = "none"
    /\ Len(call.stimulation_peaks) = 3
    /\ Len(returned.value[1]) = 2
    /\ call.stimulation_peaks[2] = LastOf(returned.value[1][1]) + 1
    /\ call.stimulation_peaks[3] = returned.value[1][2][1]

====
